---- MODULE Spec2Model ----
(***************************************************************************)
(* Model of the incremental embedding pipeline of swati-lite:              *)
(*   - FileWatcherEmbeddingService (src/src/main/services.ts): debounce,   *)
(*     pending-change map, concurrency counter, bulk scan;                 *)
(*   - ragService (src/unnamed/part_007): embedFile, deleteFileEmbeddings, *)
(*     updateChangedChunks, handleFileChange against the vector store.     *)
(*                                                                         *)
(* The vector database and the text splitter are external services.  The   *)
(* store is a set of records keyed by id; a file's content is represented  *)
(* by the chunk sequence the (deterministic) splitter returns for it.      *)
(***************************************************************************)
EXTENDS Integers, Sequences, FiniteSets

\* ------------------------------------------------------------------ bounds
MaxEvents == 2       \* file-change events that arrive in one behaviour
LiveEvents == 1      \* the same, in the behaviours checked for liveness
MaxMax == 2          \* largest value passed to setMaxConcurrentEmbeddings
MaxScans == 1        \* project:open events (bulk scans) in one behaviour
MaxIndexCalls == 2   \* rag:indexFile invocations in one behaviour
MaxOsEvents == 2     \* chokidar events raised in one behaviour
MaxShadows == 2      \* createShadowWorkspace calls in one behaviour
MaxWorldChanges == 1 \* changes made to the real project tree in one behaviour
MaxCopies == 1       \* copyFileToShadowWorkspace calls in one behaviour
MaxToolCalls == 2    \* writeToShadowFile / appendToShadowFile calls in one behaviour
MaxRecentCalls == 2           \* addToRecentProjects calls in a behaviour
MaxContent == 2      \* longest file content, in characters
MaxChunks == 12      \* longest chunk sequence of a file (store cases)
SmallChunks == 4     \* up to this length every set of changed positions

\* ------------------------------------------------------- program constants
ADDED == 1
DELETED == 2
UPDATED == 3
DefaultDebounceTimeout == 5000
DefaultMaxConcurrentEmbeddings == 1
ChromaDefaultNResults == 10
MaxExternalCalls == 8

FileChangeType == {ADDED, DELETED, UPDATED}
\* a changeType value outside the enum, as an untyped caller can pass
UnknownChangeType == 4

\* ------------------------------------------------------------------- paths
\* A path is its directory components plus the file name split as
\* path.basename / path.extname see it.
PathA == [dirs |-> <<"proj">>, base |-> "a", ext |-> ".ts"]
PathB == [dirs |-> <<"proj">>, base |-> "b", ext |-> ".TS"]
PathNM == [dirs |-> <<"proj", "node_modules">>, base |-> "x", ext |-> ".ts"]
PathTxt == [dirs |-> <<"proj">>, base |-> "r", ext |-> ".txt"]
PathBig == [dirs |-> <<"proj">>, base |-> "big", ext |-> ".ts"]

ProjectRoot == <<"proj">>
EmbedPaths == {PathA, PathB}
IgnoredPaths == {PathNM, PathTxt}
EventPaths == EmbedPaths \cup IgnoredPaths
AllPaths == EventPaths \cup {PathBig}

EMBEDDABLE_FILE_EXTENSIONS == {".js", ".jsx", ".ts", ".tsx", ".mjs", ".py", ".java", ".cpp", ".c", ".go", ".rb", ".rs", ".php", ".md", ".html", ".css", ".sol", ".json"}
IGNORED_DIRECTORIES == {"node_modules", ".git", "dist", "build", ".next", "coverage"}

toLowerCase(s) ==
  CASE s = ".TS" -> ".ts"
    [] s = ".TXT" -> ".txt"
    [] OTHER -> s

basename(p) == <<p.base, p.ext>>

pathParts(p) == {p.dirs[i] : i \in 1..Len(p.dirs)} \cup {p.base}

shouldIgnorePath(p) ==
  \/ \E dir \in IGNORED_DIRECTORIES : dir \in pathParts(p)
  \/ toLowerCase(p.ext) \notin EMBEDDABLE_FILE_EXTENSIONS

\* The file p is in the directory tree of dir (readdir, chokidar)
isBelow(p, dir) ==
  /\ Len(dir) <= Len(p.dirs)
  /\ \A i \in 1..Len(dir) : p.dirs[i] = dir[i]

\* path.join of directory names; the path of a file as a string
RECURSIVE joinNames(_)
joinNames(names) ==
  IF Len(names) = 0 THEN ""
  ELSE IF Len(names) = 1 THEN names[1]
  ELSE names[1] \o "/" \o joinNames(Tail(names))

filePathString(p) == joinNames(Append(p.dirs, p.base \o p.ext))

\* filePath.startsWith(watchedPath): a comparison of strings
startsWith(p, w) ==
  LET str == filePathString(p)
      prefix == joinNames(w)
  IN Len(prefix) <= Len(str) /\ SubSeq(str, 1, Len(prefix)) = prefix

isInWatchedPath(p, watched) == \E w \in watched : startsWith(p, w)

\* ------------------------------------------------------------ vector store
\* A stored chunk: id `{basename}-chunk-{i}`, its text and its source file.
ChunkId(p, i) == <<basename(p), i>>

NoFile == <<-1>>

SeqToSet(s) == {s[i] : i \in 1..Len(s)}

Min(a, b) == IF a < b THEN a ELSE b

\* collection.query({queryTexts: [""], nResults, where: {source}}): the
\* matching chunks, at most nResults of them, listed by chunk index.
Matching(st, src) == {r \in st : r.source = src}

RECURSIVE SortByIndex(_)
SortByIndex(rs) ==
  IF rs = {} THEN <<>>
  ELSE LET lo == CHOOSE r \in rs : \A o \in rs : r.id[2] <= o.id[2]
       IN <<lo>> \o SortByIndex(rs \ {lo})

collectionQuery(st, src, nResults) ==
  LET all == SortByIndex(Matching(st, src))
  IN SubSeq(all, 1, Min(nResults, Len(all)))

\* collection.delete({ids})
collectionDelete(st, ids) == {r \in st : r.id \notin ids}

\* collection.add({ids, metadatas, documents}): ids already present are
\* left as they are.
collectionAdd(st, recs) ==
  st \cup {r \in recs : \A o \in st : o.id # r.id}

\* ------------------------------------------------- execution environment
\* e.store  the vector store
\* e.ops    the add / delete calls made so far by the running handler
\* e.n      external calls (file read, store call) made so far; the call
\*          whose number is in `faults` throws
\* Fault patterns of one handler run: no fault, one call that throws, or
\* every call from some point on (file system or store unavailable).
FaultSets ==
  {{}} \cup {{k} : k \in 1..MaxExternalCalls} \cup {k..MaxExternalCalls : k \in 1..MaxExternalCalls}

PipelineFaults == {{}, {1}, 1..MaxExternalCalls}

NewEnv(st) == [store |-> st, ops |-> <<>>, n |-> 0]
Tick(e) == [e EXCEPT !.n = @ + 1]

Failure(e, tag) == [env |-> e, success |-> FALSE, tag |-> tag, count |-> 0]
Success(e, tag, c) == [env |-> e, success |-> TRUE, tag |-> tag, count |-> c]
\* an exception on its way to the caller
Thrown(e) == [env |-> e, success |-> FALSE, tag |-> "throw", count |-> 0]

\* A handler that let the exception through would throw to its caller.
catchError_Rethrow(r, tag) == r

\* try { ... } catch (error) { return {success: false, error} }
catchError(r, tag) == IF r.tag = "throw" THEN Failure(r.env, tag) ELSE r

ChunkRecs(p, chunks, idxs) ==
  {[id |-> ChunkId(p, i - 1), doc |-> chunks[i], source |-> p] : i \in idxs}

embedFileBody(e, fs, p, faults) ==
  LET e1 == Tick(e) IN
  IF e1.n \in faults \/ fs[p] = NoFile THEN Thrown(e1)
  ELSE
    LET chunks == fs[p]
        recs == ChunkRecs(p, chunks, 1..Len(chunks))
        e2 == Tick(e1)
    IN IF e2.n \in faults THEN Thrown(e2)
       ELSE Success([e2 EXCEPT !.store = collectionAdd(@, recs),
                               !.ops = Append(@, [op |-> "add", ids |-> {r.id : r \in recs}])],
                    "embed", Len(chunks))

embedFile(e, fs, p, faults) == catchError(embedFileBody(e, fs, p, faults), "embed")

deleteFileEmbeddingsBody(e, p, faults) ==
  LET e1 == Tick(e) IN
  IF e1.n \in faults THEN Thrown(e1)
  ELSE
    LET results == collectionQuery(e1.store, p, ChromaDefaultNResults)
        ids == {results[i].id : i \in 1..Len(results)}
    IN IF Len(results) > 0
       THEN LET e2 == Tick(e1) IN
            IF e2.n \in faults THEN Thrown(e2)
            ELSE Success([e2 EXCEPT !.store = collectionDelete(@, ids),
                                    !.ops = Append(@, [op |-> "delete", ids |-> ids])],
                         "delete", Len(results))
       ELSE Success(e1, "delete", 0)

deleteFileEmbeddings(e, p, faults) == catchError(deleteFileEmbeddingsBody(e, p, faults), "delete")

\* await deleteFileEmbeddings(...); return await embedFile(...): the result
\* of the delete is not looked at.
reEmbed(e, fs, p, faults) ==
  LET d == deleteFileEmbeddings(e, p, faults) IN
  IF d.tag = "throw" THEN d ELSE embedFile(d.env, fs, p, faults)

changedChunkIndices(currentChunks, previousDocs) ==
  {i \in 1..Len(currentChunks) : currentChunks[i] # previousDocs[i]}

tooManyChanged(changed, total) == 2 * changed > total

\* the try block of updateChangedChunks
updateChangedChunksBody(e, fs, p, faults) ==
  LET e1 == Tick(e) IN
  IF e1.n \in faults \/ fs[p] = NoFile THEN Thrown(e1)
  ELSE
    LET currentChunks == fs[p]
        e2 == Tick(e1)
    IN
    IF e2.n \in faults THEN Thrown(e2)
    ELSE
      LET previous == collectionQuery(e2.store, p, ChromaDefaultNResults)
          previousIds == [i \in 1..Len(previous) |-> previous[i].id]
          previousDocs == [i \in 1..Len(previous) |-> previous[i].doc]
      IN
      IF Len(previous) = 0 THEN embedFile(e2, fs, p, faults)
      ELSE IF Len(previousIds) # Len(currentChunks) THEN reEmbed(e2, fs, p, faults)
      ELSE
        LET changed == changedChunkIndices(currentChunks, previousDocs) IN
        IF changed = {} THEN Success(e2, "nochange", 0)
        ELSE IF tooManyChanged(Cardinality(changed), Len(currentChunks))
        THEN reEmbed(e2, fs, p, faults)
        ELSE
          LET idsToDelete == {previousIds[i] : i \in changed}
              e3 == Tick(e2)
          IN
          IF e3.n \in faults THEN Thrown(e3)
          ELSE
            LET e4 == [e3 EXCEPT !.store = collectionDelete(@, idsToDelete),
                                 !.ops = Append(@, [op |-> "delete", ids |-> idsToDelete])]
                recs == ChunkRecs(p, currentChunks, changed)
                e5 == Tick(e4)
            IN
            IF e5.n \in faults THEN Thrown(e5)
            ELSE Success([e5 EXCEPT !.store = collectionAdd(@, recs),
                                    !.ops = Append(@, [op |-> "add", ids |-> {r.id : r \in recs}])],
                         "update", Cardinality(changed))

\* catch of updateChangedChunks: the fallback, in a try / catch of its own
updateChangedChunks(e, fs, p, faults) ==
  LET r == updateChangedChunksBody(e, fs, p, faults) IN
  IF r.tag = "throw" THEN catchError(reEmbed(r.env, fs, p, faults), "update") ELSE r

handleFileChange(st, fs, p, changeType, faults) ==
  catchError(
    CASE changeType = ADDED -> embedFile(NewEnv(st), fs, p, faults)
      [] changeType = UPDATED -> updateChangedChunks(NewEnv(st), fs, p, faults)
      [] changeType = DELETED -> deleteFileEmbeddings(NewEnv(st), p, faults)
      [] OTHER -> Failure(NewEnv(st), "unknown"),
    "handle")


\* ---------------------------------------------------------------- state
VARIABLES
  timers,                   \* scheduled debounce callbacks [id, path, type]
  timeout,                  \* debounce closure's `timeout`: timer id, 0 = null
  debounceTimeout,          \* milliseconds
  pendingChanges,           \* Map<path, type> in insertion order
  activeEmbeddings,
  maxConcurrentEmbeddings,
  watchedPaths,
  inflight,                 \* processFileChange calls awaiting handleFileChange
  scans,                    \* scanAndEmbedDirectory runs, one per slot
  store,                    \* the vector store collection
  files,                    \* file system: path -> chunk sequence of its content
  arrivals,                 \* history: events in arrival order
  delivered,                \* history: event ids handed to processPendingChange
  accepted,                 \* history: event ids entered in the pending map
  started,                  \* history: per event id, processFileChange calls begun
  raced,                    \* history: Deleted events entered in the map while an
                            \*          Added / Updated call for their path was in flight
  indexCalls,               \* per rag:indexFile invocation, its position and result
  outcome,                  \* observation: what a direct handleFileChange call did
  watchers,                 \* FileWatcherService.watchers: the keys of the Map
  subscribers,              \* FileWatcherService.subscribers: dir -> set of ids
  openWatchers,             \* per dir, chokidar watchers created and not closed
  interested,               \* history: <<dir, id>> that asked to watch and have
                            \*          not asked to unwatch since
  osEvents,                 \* history: chokidar events raised by open watchers
  bus,                      \* "file:change" events emitted on the service
  shadowWorkspaces,         \* ShadowWorkspaceService.shadowWorkspaces: the Map
                            \*   entries in insertion order
  disk,                     \* the file system: path -> directory or file content
  platform,                 \* process.platform
  nextId,                   \* shadow directory names allocated so far
  allocated,                \* history: shadow directories made by createShadowWorkspace
  pendingOs,                \* chokidar notifications not yet raised
  worldChanges,             \* changes made to the real tree so far
  copies,                   \* copyFileToShadowWorkspace calls made so far
  toolCalls,                \* shadow-file tool calls made so far
  quit,                     \* the app has quit
  ret,                      \* observation: the last service call and what it returned
  recentProjects,           \* store.get("recentProjects")
  now,                      \* Date.now()
  recentLog                 \* history: the paths given to addToRecentProjects

vars == <<timers, timeout, debounceTimeout, pendingChanges, activeEmbeddings, maxConcurrentEmbeddings, watchedPaths, inflight, scans, store, files, arrivals, delivered, accepted, started, raced, indexCalls, outcome, watchers, subscribers, openWatchers, interested, osEvents, bus, shadowWorkspaces, disk, platform, nextId, allocated, pendingOs, worldChanges, copies, toolCalls, quit, ret, recentProjects, now, recentLog>>

recentVars == <<recentProjects, now, recentLog>>

busVars == <<osEvents, bus>>

shadowVars == <<shadowWorkspaces, disk, platform, nextId, allocated, pendingOs, worldChanges, copies, toolCalls, quit, ret>>

watcherVars == <<watchers, subscribers, openWatchers, interested>>

pipelineVars == <<timers, timeout, debounceTimeout, pendingChanges, activeEmbeddings, maxConcurrentEmbeddings, watchedPaths, inflight, scans, arrivals, delivered, started, raced, indexCalls>>

\* A scan: the files it still has to process, whether it awaits a
\* processFileChange call, whether it runs or has returned, and as history
\* the directory content it listed and the calls it made.
Idle == [todo |-> <<>>, busy |-> FALSE, on |-> FALSE, done |-> FALSE, listed |-> {}, log |-> <<>>, check |-> 0]
ScanSlots == 1..MaxScans
NoCall == [path |-> PathA, type |-> 0, faults |-> {}, prev |-> {}, ops |-> <<>>, success |-> FALSE, tag |-> "none", count |-> 0]
EventIds == 1..MaxEvents
IndexCallIds == 1..MaxIndexCalls
NoIndexCall == [pc |-> "idle", path |-> PathA, exists |-> FALSE, faulty |-> FALSE, success |-> FALSE, message |-> "none", ops |-> <<>>]

\* ------------------------------------------------------ FileWatcherService
\* Directory paths as the renderer windows pass them, and path.normalize,
\* which drops "." segments and resolves "..".
RawDirs == {<<"proj">>, <<"proj", ".">>, <<"proj", "src", "..">>, <<"proj", "src">>, <<"lib">>}

RECURSIVE normalizeSegments(_, _)
normalizeSegments(segs, acc) ==
  IF segs = <<>> THEN acc
  ELSE IF Head(segs) = "." THEN normalizeSegments(Tail(segs), acc)
  ELSE IF Head(segs) = ".." /\ acc # <<>> /\ acc[Len(acc)] # ".."
       THEN normalizeSegments(Tail(segs), SubSeq(acc, 1, Len(acc) - 1))
  ELSE normalizeSegments(Tail(segs), Append(acc, Head(segs)))

normalize(dir) == normalizeSegments(dir, <<>>)

NormDirs == {normalize(d) : d \in RawDirs}

\* event.sender.id.toString() of the renderer windows
WindowIds == {"1", "2", "3"}

\* A Map entry with no subscriber is deleted, so an absent key and an empty
\* set are the same thing.
InitWatcher ==
  /\ watchers = {}
  /\ subscribers = [d \in NormDirs |-> {}]
  /\ openWatchers = [d \in NormDirs |-> 0]
  /\ interested = {}
  /\ osEvents = <<>>
  /\ bus = <<>>

\* ------------------------------------------ shadow workspace: paths, disk
\* A name is its sequence of characters and an absolute path the sequence
\* of its names, so that String.startsWith can be taken on the path string.
RootP == <<<<"p">>>>                              \* /p
RootPS == <<<<"p">>, <<"s">>>>                     \* /p/s, a project nested in /p
DirD == <<<<"p">>, <<"s">>, <<"d">>>>              \* /p/s/d
FileC == <<<<"p">>, <<"s">>, <<"d">>, <<"c">>>>    \* /p/s/d/c

Roots == {RootP, RootPS}
\* /p, /p/s, /p/s/d, the sibling /pq and /o
RealDirs == {RootP, RootPS, DirD, <<<<"p", "q">>>>, <<<<"o">>>>}
\* /p/a, /p/s/b, /p/s/d/c, /pq/a and /o/a
RealFiles ==
  {<<<<"p">>, <<"a">>>>, <<<<"p">>, <<"s">>, <<"b">>>>, FileC, <<<<"p", "q">>, <<"a">>>>, <<<<"o">>, <<"a">>>>}
Contents == {<<"x">>, <<"y">>}

\* path.join(os.homedir(), ".cache", ".shadow_workspace")
shadowBasePath == <<<<"~">>>>

RECURSIVE pathString(_)
pathString(path) ==
  IF path = <<>> THEN <<>> ELSE <<"/">> \o Head(path) \o pathString(Tail(path))

\* String.prototype.startsWith
stringStartsWith(str, prefix) ==
  /\ Len(prefix) <= Len(str)
  /\ SubSeq(str, 1, Len(prefix)) = prefix

dirname(path) == SubSeq(path, 1, Len(path) - 1)

IsAncestorOrSelf(a, path) ==
  /\ Len(a) <= Len(path)
  /\ SubSeq(path, 1, Len(a)) = a

RECURSIVE commonLength(_, _)
commonLength(a, b) ==
  IF a = <<>> \/ b = <<>> \/ Head(a) # Head(b) THEN 0
  ELSE 1 + commonLength(Tail(a), Tail(b))

\* path.relative(from, to)
relative(from, to) ==
  LET k == commonLength(from, to) IN
  [i \in 1..(Len(from) - k) |-> <<".", ".">>] \o SubSeq(to, k + 1, Len(to))

RECURSIVE resolveDots(_, _)
resolveDots(names, acc) ==
  IF names = <<>> THEN acc
  ELSE IF Head(names) = <<".", ".">> /\ acc # <<>>
       THEN resolveDots(Tail(names), SubSeq(acc, 1, Len(acc) - 1))
  ELSE resolveDots(Tail(names), Append(acc, Head(names)))

\* path.join(base, rel)
pathJoin(base, rel) == resolveDots(base \o rel, <<>>)

\* ---- fs
Dir == [dir |-> TRUE, content |-> <<>>]
File(c) == [dir |-> FALSE, content |-> c]

existsSync(dk, path) == path \in DOMAIN dk
isDirectory(dk, path) == path \in DOMAIN dk /\ dk[path].dir

Prefixes(path) == {SubSeq(path, 1, k) : k \in 1..Len(path)}

Put(dk, path, entry) ==
  [q \in DOMAIN dk \cup {path} |-> IF q = path THEN entry ELSE dk[q]]

\* fs.mkdirSync(path, {recursive: true}) throws when a name on the way is a file
mkdirFails(dk, path) == \E q \in Prefixes(path) : q \in DOMAIN dk /\ ~dk[q].dir

mkdirSync(dk, path) ==
  [q \in DOMAIN dk \cup Prefixes(path) |-> IF q \in DOMAIN dk THEN dk[q] ELSE Dir]

\* fs.copyFileSync(src, dest) throws unless src is a file, the directory of
\* dest exists and dest is not a directory
copyFails(dk, src, dest) ==
  \/ src \notin DOMAIN dk
  \/ dk[src].dir
  \/ ~isDirectory(dk, dirname(dest))
  \/ isDirectory(dk, dest)

copyFileSync(dk, src, dest) == Put(dk, dest, dk[src])

\* fs.rmSync(path, {recursive: true, force: true})
rmSync(dk, path) == [q \in {x \in DOMAIN dk : ~IsAncestorOrSelf(path, x)} |-> dk[q]]

\* fs.unlinkSync(path)
unlinkSync(dk, path) == [q \in DOMAIN dk \ {path} |-> dk[q]]

\* fs.writeFileSync(path, content) throws on a directory
writeFails(dk, path) == isDirectory(dk, path) \/ ~isDirectory(dk, dirname(path))

writeFileSync(dk, path, content) == Put(dk, path, File(content))

\* ---- the registry
NoWorkspace == [originalPath |-> <<>>, shadowPath |-> <<>>]

MapHas(ws, key) == \E i \in 1..Len(ws) : ws[i].originalPath = key

MapGet(ws, key) ==
  IF MapHas(ws, key) THEN ws[CHOOSE i \in 1..Len(ws) : ws[i].originalPath = key]
  ELSE NoWorkspace

\* A Map that kept the old entry next to the new one
shadowMapSet_Append(ws, info) == Append(ws, info)

\* Map.set: a new key goes last, an existing key keeps its place
shadowMapSet(ws, info) ==
  IF MapHas(ws, info.originalPath)
  THEN [i \in 1..Len(ws) |-> IF ws[i].originalPath = info.originalPath THEN info ELSE ws[i]]
  ELSE Append(ws, info)

MapDelete(ws, key) == SelectSeq(ws, LAMBDA e : e.originalPath # key)

findWorkspaceForPath(ws, filePath) ==
  IF MapHas(ws, filePath) THEN MapGet(ws, filePath)
  ELSE IF \E i \in 1..Len(ws) : stringStartsWith(pathString(filePath), pathString(ws[i].originalPath))
       THEN ws[CHOOSE i \in 1..Len(ws) :
                 /\ stringStartsWith(pathString(filePath), pathString(ws[i].originalPath))
                 /\ \A j \in 1..(i - 1) : ~stringStartsWith(pathString(filePath), pathString(ws[j].originalPath))]
       ELSE NoWorkspace

getShadowWorkspace(ws, originalPath) == MapGet(ws, originalPath)

\* The real tree, and the cache directory the constructor makes
\* The project on disk when the application starts; FileC is yet to be
\* written.
RealTree ==
  [q \in RealDirs \cup (RealFiles \ {FileC}) \cup {shadowBasePath} |->
     IF q \in RealFiles THEN File(<<"x">>) ELSE Dir]

InitShadowService(pf) ==
  /\ shadowWorkspaces = <<>>
  /\ disk = RealTree
  /\ platform = pf
  /\ nextId = 0
  /\ allocated = {}
  /\ pendingOs = <<>>
  /\ worldChanges = 0
  /\ copies = 0
  /\ toolCalls = 0
  /\ quit = FALSE
  /\ ret = [op |-> "none", arg |-> <<>>, type |-> 0, ok |-> FALSE, path |-> <<>>, fault |-> FALSE]

InitPipeline ==
  /\ timers = {}
  /\ timeout = 0
  /\ debounceTimeout = DefaultDebounceTimeout
  /\ pendingChanges = <<>>
  /\ activeEmbeddings = 0
  /\ maxConcurrentEmbeddings = DefaultMaxConcurrentEmbeddings
  /\ watchedPaths = {}
  /\ inflight = {}
  /\ scans = [s \in ScanSlots |-> Idle]
  /\ arrivals = <<>>
  /\ delivered = {}
  /\ accepted = {}
  /\ started = [i \in EventIds |-> 0]
  /\ raced = {}
  /\ indexCalls = [k \in IndexCallIds |-> NoIndexCall]
  /\ InitWatcher

\* The state in which the embedding pipeline, the store handlers and the
\* watcher are looked at on their own
\* ---- recent projects
\* slice(0, 10)
RecentLimit == 10

\* Projects that can be opened: /ws/p01 .. /ws/p12
RecentPaths == {<<"ws", n>> : n \in {"p01", "p02", "p03", "p04", "p05", "p06", "p07", "p08", "p09", "p10", "p11", "p12"}}

InitRecent(list) ==
  /\ recentProjects = list
  /\ now = Len(list)
  /\ recentLog = <<>>

InitServices ==
  /\ InitPipeline
  /\ InitShadowService("posix")
  /\ InitRecent(<<>>)

Init ==
  /\ InitServices
  /\ store = {}
  /\ files = [p \in EmbedPaths |-> <<0>>]
  /\ outcome = NoCall

\* ------------------------------------------------------ pending-change map
PendingPaths(pend) == {pend[i].path : i \in 1..Len(pend)}

\* A map that kept the first entry of a key would not be last-write-wins.
MapSet_KeepFirst(pend, entry) ==
  IF entry.path \in PendingPaths(pend) THEN pend ELSE Append(pend, entry)

\* Map.set: an existing key keeps its position, a new key goes last.
MapSet(pend, entry) ==
  IF entry.path \in PendingPaths(pend)
  THEN [i \in 1..Len(pend) |-> IF pend[i].path = entry.path THEN entry ELSE pend[i]]
  ELSE Append(pend, entry)

\* processPendingChanges: while a slot is free, take the entries in map
\* order, delete each from the map and start processFileChange for it,
\* which increments activeEmbeddings before its first await.
PromoteCount(pend, active, max) ==
  IF active >= max THEN 0 ELSE Min(Len(pend), max - active)

\* A processFileChange that did not count itself
processPendingChanges_NoIncrement(pend, active, max) ==
  LET k == PromoteCount(pend, active, max) IN
  [pending |-> SubSeq(pend, k + 1, Len(pend)),
   active |-> active,
   begun |-> SubSeq(pend, 1, k)]

processPendingChanges(pend, active, max) ==
  LET k == PromoteCount(pend, active, max) IN
  [pending |-> SubSeq(pend, k + 1, Len(pend)),
   active |-> active + k,
   begun |-> SubSeq(pend, 1, k)]

\* The calls started for the entries; `read` is the content of the file
\* when the call starts.
Calls(entries, fs) ==
  {[path |-> entries[i].path, type |-> entries[i].type, id |-> entries[i].id, scan |-> 0, read |-> fs[entries[i].path]] : i \in 1..Len(entries)}

Begin(st, entries) ==
  [i \in EventIds |-> st[i] + Cardinality({k \in 1..Len(entries) : entries[k].id = i})]

\* ---------------------------------------------------------------- debounce
\* The file content an event reports: a deleted file is gone, an added
\* file has its first content, an update changes the content.
ContentAfter(fs, p, t) ==
  IF t = DELETED THEN NoFile
  ELSE IF t = ADDED THEN <<0>>
  ELSE IF fs[p] = <<0>> THEN <<1>> ELSE <<0>>

\* debouncedHandleFileChangeEvent(change): clearTimeout of the closure's
\* timer if there is one, then setTimeout for the new change.
FileChangeEvent(p, t) ==
  /\ LET id == Len(arrivals) + 1 IN
     /\ timers' = {x \in timers : x.id # timeout} \cup {[id |-> id, path |-> p, type |-> t]}
     /\ timeout' = id
     /\ arrivals' = Append(arrivals, [path |-> p, type |-> t, rapid |-> (id > 1 /\ id - 1 \notin delivered), watched |-> isInWatchedPath(p, watchedPaths)])
  /\ files' = IF p \in DOMAIN files THEN [files EXCEPT ![p] = ContentAfter(files, p, t)] ELSE files
  /\ UNCHANGED <<pendingChanges, activeEmbeddings, maxConcurrentEmbeddings, debounceTimeout, watchedPaths, inflight, scans, store, delivered, accepted, started, outcome, raced, indexCalls, watcherVars, busVars, shadowVars, recentVars>>

\* processPendingChange(change), with the processPendingChanges call it ends in
Accepts(x) == ~shouldIgnorePath(x.path) /\ isInWatchedPath(x.path, watchedPaths)

processPendingChange(x) ==
  IF ~Accepts(x)
  THEN [pending |-> pendingChanges, active |-> activeEmbeddings, begun |-> <<>>]
  ELSE processPendingChanges(MapSet(pendingChanges, x), activeEmbeddings, maxConcurrentEmbeddings)

\* The timer callback: func(...args); timeout = null.
TimerFires(x) ==
  /\ x \in timers
  /\ timers' = timers \ {x}
  /\ timeout' = IF x.id = timeout THEN 0 ELSE timeout
  /\ delivered' = delivered \cup {x.id}
  /\ accepted' = IF Accepts(x) THEN accepted \cup {x.id} ELSE accepted
  /\ raced' = IF Accepts(x) /\ x.type = DELETED /\ (\E c \in inflight : c.path = x.path /\ c.type # DELETED)
              THEN raced \cup {x.id} ELSE raced
  /\ LET r == processPendingChange(x) IN
     /\ pendingChanges' = r.pending
     /\ activeEmbeddings' = r.active
     /\ inflight' = inflight \cup Calls(r.begun, files)
     /\ started' = Begin(started, r.begun)
  /\ UNCHANGED <<maxConcurrentEmbeddings, debounceTimeout, watchedPaths, scans, store, files, arrivals, outcome, indexCalls, watcherVars, busVars, shadowVars, recentVars>>

\* ------------------------------------------------------- processFileChange
\* The await of handleFileChange returns (or throws) and the finally block
\* runs: the slot is released and pending changes are looked at again.
afterHandleFileChange_ReleaseOnly(pend, active, max) ==
  [pending |-> pend, active |-> active - 1, begun |-> <<>>]

afterHandleFileChange(pend, active, max) ==
  IF Len(pend) > 0
  THEN processPendingChanges(pend, active - 1, max)
  ELSE [pending |-> pend, active |-> active - 1, begun |-> <<>>]

ScanAdvance(sc, c) ==
  IF c.scan = 0 THEN sc
  ELSE [sc EXCEPT ![c.scan] = IF Len(@.todo) <= 1
                               THEN [@ EXCEPT !.todo = <<>>, !.busy = FALSE, !.on = FALSE, !.done = TRUE]
                               ELSE [@ EXCEPT !.todo = Tail(@), !.busy = FALSE]]

\* The handler reads the file at some moment between the start of the call
\* and its return: it sees the content at the start or the content now.
FileViews(c) == {[files EXCEPT ![c.path] = c.read], files}

Complete(c, fs, faults) ==
  /\ c \in inflight
  /\ LET h == handleFileChange(store, fs, c.path, c.type, faults)
         r == afterHandleFileChange(pendingChanges, activeEmbeddings, maxConcurrentEmbeddings)
     IN
     /\ store' = h.env.store
     /\ pendingChanges' = r.pending
     /\ activeEmbeddings' = r.active
     /\ inflight' = (inflight \ {c}) \cup Calls(r.begun, files)
     /\ started' = Begin(started, r.begun)
  /\ scans' = ScanAdvance(scans, c)
  /\ UNCHANGED <<timers, timeout, maxConcurrentEmbeddings, debounceTimeout, watchedPaths, files, arrivals, delivered, accepted, outcome, raced, indexCalls, watcherVars, busVars, shadowVars, recentVars>>

\* ---------------------------------------------------------------- bulk scan
\* readdir order of the project tree
ProjectTree == <<PathA, PathB, PathNM, PathTxt>>

scanAccepts_NoIgnoredDirectories(p, root) ==
  /\ isBelow(p, root)
  /\ toLowerCase(p.ext) \in EMBEDDABLE_FILE_EXTENSIONS

scanAccepts(p, root) ==
  /\ isBelow(p, root)
  /\ \A i \in (Len(root) + 1)..Len(p.dirs) : p.dirs[i] \notin IGNORED_DIRECTORIES
  /\ toLowerCase(p.ext) \in EMBEDDABLE_FILE_EXTENSIONS

\* fs.readdir lists the files that exist
ExistingTree(fs) == SelectSeq(ProjectTree, LAMBDA p : p \notin DOMAIN fs \/ fs[p] # NoFile)

ScanFiles(root, fs) == SelectSeq(ExistingTree(fs), LAMBDA p : scanAccepts(p, root))

\* project:open listener: watchPathForEmbedding, then scanAndEmbedDirectory
\* up to the directory listing. A behaviour has at most MaxScans project:open
\* events, numbered in order; their scans may overlap.
ProjectOpen(s) ==
  /\ scans[s] = Idle
  /\ \A r \in 1..(s - 1) : scans[r] # Idle
  /\ watchedPaths' = watchedPaths \cup {ProjectRoot}
  /\ LET todo == ScanFiles(ProjectRoot, files) IN
     scans' = [scans EXCEPT ![s] = [todo |-> todo, busy |-> FALSE, on |-> todo # <<>>, done |-> todo = <<>>,
                                    listed |-> SeqToSet(ExistingTree(files)), log |-> <<>>, check |-> 0]]
  /\ UNCHANGED <<timers, timeout, pendingChanges, activeEmbeddings, maxConcurrentEmbeddings, debounceTimeout, inflight, store, files, arrivals, delivered, accepted, started, outcome, raced, indexCalls, watcherVars, busVars, shadowVars, recentVars>>

checkFileExists(st, p) == Len(collectionQuery(st, p, 1)) > 0

\* The scan reaches its next file and awaits checkFileExists; the answer
\* selects the change type of the call that follows.
ScanCheck(s) ==
  /\ scans[s].on
  /\ ~scans[s].busy
  /\ scans[s].check = 0
  /\ LET f == Head(scans[s].todo)
         t == IF checkFileExists(store, f) THEN UPDATED ELSE ADDED
     IN scans' = [scans EXCEPT ![s].check = t,
                               ![s].log = Append(@, [path |-> f, type |-> t, exists |-> Matching(store, f) # {}])]
  /\ UNCHANGED <<timers, timeout, pendingChanges, activeEmbeddings, maxConcurrentEmbeddings, debounceTimeout, watchedPaths, inflight, store, files, arrivals, delivered, accepted, started, outcome, raced, indexCalls, watcherVars, busVars, shadowVars, recentVars>>

\* With the answer, processFileChange is called directly and awaited.
ScanStep(s) ==
  /\ scans[s].on
  /\ ~scans[s].busy
  /\ scans[s].check # 0
  /\ LET f == Head(scans[s].todo) IN
     inflight' = inflight \cup {[path |-> f, type |-> scans[s].check, id |-> 0, scan |-> s, read |-> files[f]]}
  /\ activeEmbeddings' = activeEmbeddings + 1
  /\ scans' = [scans EXCEPT ![s].busy = TRUE, ![s].check = 0]
  /\ UNCHANGED <<timers, timeout, pendingChanges, maxConcurrentEmbeddings, debounceTimeout, watchedPaths, store, files, arrivals, delivered, accepted, started, outcome, raced, indexCalls, watcherVars, busVars, shadowVars, recentVars>>

\* ------------------------------------------------------------ configuration
setMaxConcurrentEmbeddings(max) ==
  /\ max # maxConcurrentEmbeddings
  /\ maxConcurrentEmbeddings' = max
  /\ UNCHANGED <<timers, timeout, pendingChanges, activeEmbeddings, debounceTimeout, watchedPaths, inflight, scans, store, files, arrivals, delivered, accepted, started, outcome, raced, indexCalls, watcherVars, busVars, shadowVars, recentVars>>

\* setDebounceTimeout(timeoutMs): the debounced function is made anew; its
\* closure starts with timeout = null, and a timer the old closure has
\* set stays scheduled, its callback clearing only the old closure's
\* variable.
setDebounceTimeout(timeoutMs) ==
  /\ timeoutMs # debounceTimeout
  /\ debounceTimeout' = timeoutMs
  /\ timeout' = 0
  /\ UNCHANGED <<timers, pendingChanges, activeEmbeddings, maxConcurrentEmbeddings, watchedPaths, inflight, scans, store, files, arrivals, delivered, accepted, started, outcome, raced, indexCalls, watcherVars, busVars, shadowVars, recentVars>>

watchPathForEmbedding(dir) ==
  /\ dir \notin watchedPaths
  /\ watchedPaths' = watchedPaths \cup {dir}
  /\ UNCHANGED <<timers, timeout, pendingChanges, activeEmbeddings, maxConcurrentEmbeddings, debounceTimeout, inflight, scans, store, files, arrivals, delivered, accepted, started, outcome, raced, indexCalls, watcherVars, busVars, shadowVars, recentVars>>

unwatchPathForEmbedding(dir) ==
  /\ dir \in watchedPaths
  /\ watchedPaths' = watchedPaths \ {dir}
  /\ UNCHANGED <<timers, timeout, pendingChanges, activeEmbeddings, maxConcurrentEmbeddings, debounceTimeout, inflight, scans, store, files, arrivals, delivered, accepted, started, outcome, raced, indexCalls, watcherVars, busVars, shadowVars, recentVars>>

\* ------------------------------------------------------------ specification
EventTypes(p) == IF p \in IgnoredPaths THEN {UPDATED} ELSE FileChangeType

\* A call in flight is the call of one event or the current call of one scan.
CallKeys == {<<i, 0>> : i \in EventIds} \cup {<<0, s>> : s \in ScanSlots}

Returns(k) ==
  \E c \in inflight :
    /\ c.id = k[1] /\ c.scan = k[2]
    /\ \E fs \in FileViews(c) : \E faults \in PipelineFaults : Complete(c, fs, faults)

Arrival(cap) ==
  /\ Len(arrivals) < cap
  /\ \E p \in EventPaths : \E t \in EventTypes(p) : FileChangeEvent(p, t)

Next ==
  \/ Arrival(MaxEvents)
  \/ \E x \in timers : TimerFires(x)
  \/ \E c \in inflight : \E fs \in FileViews(c) : \E faults \in PipelineFaults : Complete(c, fs, faults)
  \/ \E s \in ScanSlots : ProjectOpen(s)
  \/ \E s \in ScanSlots : ScanCheck(s)
  \/ \E s \in ScanSlots : ScanStep(s)
  \/ \E m \in 1..MaxMax : setMaxConcurrentEmbeddings(m)

Spec == Init /\ [][Next]_vars

\* ------------------------------------------- handleFileChange on its own
\* The store holds the m chunks of an earlier version of one file; the file
\* now splits into n chunks, the positions in S differing from that version.
StoredChunks(p, m) == ChunkRecs(p, [i \in 1..m |-> 0], 1..m)

ChangeSets(n) ==
  IF n <= SmallChunks THEN SUBSET (1..n)
  ELSE {lo..hi : lo \in 1..n, hi \in 0..n}

Content(n, S) == [i \in 1..n |-> IF i \in S THEN 1 ELSE 0]

InitStore ==
  /\ InitServices
  /\ outcome = NoCall
  /\ \E m \in 0..MaxChunks, n \in 1..MaxChunks :
       \E S \in ChangeSets(n) :
         /\ store = StoredChunks(PathBig, m)
         /\ files = [p \in {PathBig} |-> Content(n, S)]

DirectCall(p, t, faults) ==
  /\ outcome.tag = "none"
  /\ LET h == handleFileChange(store, files, p, t, faults) IN
     /\ store' = h.env.store
     /\ outcome' = [path |-> p, type |-> t, faults |-> faults, prev |-> Matching(store, p), ops |-> h.env.ops, success |-> h.success, tag |-> h.tag, count |-> h.count]
  /\ UNCHANGED <<pipelineVars, accepted, files, watcherVars, busVars, shadowVars, recentVars>>

NextStore ==
  \E t \in FileChangeType \cup {UnknownChangeType} : \E faults \in FaultSets : DirectCall(PathBig, t, faults)

SpecStore == InitStore /\ [][NextStore]_vars

\* ---- the watched-path set changes while events arrive
\* A file in a sibling directory whose name starts with the project's name
PathSibling == [dirs |-> <<"proj2">>, base |-> "a", ext |-> ".ts"]

\* ipcMain.handle("rag:toggleWatchPath")
toggleWatchPath(dirPath, shouldWatch) ==
  IF shouldWatch THEN watchPathForEmbedding(dirPath) ELSE unwatchPathForEmbedding(dirPath)

InitToggle ==
  /\ InitServices
  /\ store = {}
  /\ files = [p \in {PathA, PathSibling} |-> <<0>>]
  /\ outcome = NoCall

NextToggle ==
  \/ Len(arrivals) < MaxEvents /\ \E p \in {PathA, PathSibling} : \E t \in {ADDED, UPDATED} : FileChangeEvent(p, t)
  \/ \E x \in timers : TimerFires(x)
  \/ \E c \in inflight : Complete(c, files, {})
  \/ \E shouldWatch \in BOOLEAN : toggleWatchPath(ProjectRoot, shouldWatch)

SpecToggle == InitToggle /\ [][NextToggle]_vars

\* ---- the debounce interval is changed while events wait
DebounceTimeouts == {100, DefaultDebounceTimeout}

NextDebounce ==
  \/ watchPathForEmbedding(ProjectRoot)
  \/ Len(arrivals) < MaxEvents /\ \E t \in FileChangeType : FileChangeEvent(PathA, t)
  \/ \E x \in timers : TimerFires(x)
  \/ \E c \in inflight : Complete(c, files, {})
  \/ \E timeoutMs \in DebounceTimeouts : setDebounceTimeout(timeoutMs)

SpecDebounce == Init /\ [][NextDebounce]_vars

\* ---- two files with the same basename in different directories
PathTwin == [dirs |-> <<"proj", "lib">>, base |-> "a", ext |-> ".ts"]

\* The store holds what embedFile has stored for one of the two files, or
\* for both, in either order, from the content they had then; the files
\* have their current content.
InitTwin ==
  /\ InitServices
  /\ outcome = NoCall
  /\ \E old, new \in [{PathA, PathTwin} -> {<<0>>, <<1>>, <<0, 1>>}] :
       \E first \in {PathA, PathTwin} : \E both \in BOOLEAN :
         LET second == CHOOSE q \in {PathA, PathTwin} : q # first
             s1 == handleFileChange({}, old, first, ADDED, {}).env.store
         IN
         /\ files = new
         /\ store = IF both THEN handleFileChange(s1, old, second, ADDED, {}).env.store ELSE s1

NextTwin ==
  \E p \in {PathA, PathTwin} : \E t \in FileChangeType : \E faults \in FaultSets : DirectCall(p, t, faults)

SpecTwin == InitTwin /\ [][NextTwin]_vars

\* ------------------------------------------------------- rag:indexFile
\* The renderer invokes rag:indexFile for files that are not modified
\* meanwhile; each invocation is a handler of its own and the handlers
\* interleave at their awaits.
IndexPaths == {PathA, PathB}

InitIndex ==
  /\ InitServices
  /\ outcome = NoCall
  /\ store = {}
  /\ \E n \in 1..SmallChunks : files = [p \in IndexPaths |-> Content(n, {})]

\* await checkFileExists({filePath}); when it reports chunks the handler
\* returns at once. A failing store query is reported as exists: false.
IndexCheck(k, p, fail) ==
  /\ indexCalls[k].pc = "idle"
  /\ LET exists == ~fail /\ checkFileExists(store, p) IN
     indexCalls' = [indexCalls EXCEPT ![k] =
       IF exists
       THEN [@ EXCEPT !.pc = "done", !.path = p, !.exists = TRUE, !.success = TRUE, !.message = "File already indexed"]
       ELSE [@ EXCEPT !.pc = "embed", !.path = p, !.faulty = fail]]
  /\ UNCHANGED <<timers, timeout, pendingChanges, activeEmbeddings, maxConcurrentEmbeddings, debounceTimeout, watchedPaths, inflight, scans, arrivals, delivered, started, raced, accepted, store, files, outcome, watcherVars, busVars, shadowVars, recentVars>>

\* return await handleFileChange({filePath, changeType: ADDED})
IndexEmbed(k, faults) ==
  /\ indexCalls[k].pc = "embed"
  /\ LET h == handleFileChange(store, files, indexCalls[k].path, ADDED, faults) IN
     /\ store' = h.env.store
     /\ indexCalls' = [indexCalls EXCEPT ![k] =
          [@ EXCEPT !.pc = "done", !.faulty = @ \/ faults # {}, !.success = h.success, !.message = h.tag, !.ops = h.env.ops]]
  /\ UNCHANGED <<timers, timeout, pendingChanges, activeEmbeddings, maxConcurrentEmbeddings, debounceTimeout, watchedPaths, inflight, scans, arrivals, delivered, started, raced, accepted, files, outcome, watcherVars, busVars, shadowVars, recentVars>>

NextIndex ==
  \/ \E k \in IndexCallIds : \E p \in IndexPaths : \E fail \in BOOLEAN : IndexCheck(k, p, fail)
  \/ \E k \in IndexCallIds : \E faults \in PipelineFaults : IndexEmbed(k, faults)

SpecIndex == InitIndex /\ [][NextIndex]_vars

\* ------------------------------------------------- watch / unwatch / cleanup
watchDirectory_NoHasCheck(dirPath, subscriberId) ==
  LET dir == normalize(dirPath) IN
  /\ openWatchers' = [openWatchers EXCEPT ![dir] = @ + 1]
  /\ watchers' = watchers \cup {dir}
  /\ interested' = interested \cup {<<dir, subscriberId>>}
  /\ UNCHANGED <<subscribers, pipelineVars, accepted, store, files, outcome, busVars, shadowVars, recentVars>>

\* watchDirectory(dirPath, subscriberId): chokidar.watch and watchers.set
\* if the Map has no watcher for the normalized path; subscriberId is not
\* used.
watchDirectory(dirPath, subscriberId) ==
  LET dir == normalize(dirPath) IN
  /\ openWatchers' = IF dir \notin watchers THEN [openWatchers EXCEPT ![dir] = @ + 1] ELSE openWatchers
  /\ watchers' = watchers \cup {dir}
  /\ interested' = interested \cup {<<dir, subscriberId>>}
  /\ UNCHANGED <<subscribers, pipelineVars, accepted, store, files, outcome, busVars, shadowVars, recentVars>>

\* The effect of unwatchDirectory on <<subscribers, watchers, openWatchers>>.
unwatchEffect(st, dirPath, subscriberId) ==
  LET dir == normalize(dirPath) IN
  IF st.subscribers[dir] = {} THEN st
  ELSE
    LET left == st.subscribers[dir] \ {subscriberId} IN
    IF left # {} THEN [st EXCEPT !.subscribers[dir] = left]
    ELSE [subscribers |-> [st.subscribers EXCEPT ![dir] = {}],
          watchers |-> st.watchers \ {dir},
          openWatchers |-> IF dir \in st.watchers
                           THEN [st.openWatchers EXCEPT ![dir] = @ - 1]
                           ELSE st.openWatchers]

WatcherState == [subscribers |-> subscribers, watchers |-> watchers, openWatchers |-> openWatchers]

unwatchDirectory(dirPath, subscriberId) ==
  /\ LET st == unwatchEffect(WatcherState, dirPath, subscriberId) IN
     /\ subscribers' = st.subscribers
     /\ watchers' = st.watchers
     /\ openWatchers' = st.openWatchers
  /\ interested' = interested \ {<<normalize(dirPath), subscriberId>>}
  /\ UNCHANGED <<pipelineVars, accepted, store, files, outcome, busVars, shadowVars, recentVars>>

\* cleanupWatchers(subscriberId): unwatchDirectory for every entry of
\* subscribers that holds subscriberId.
RECURSIVE cleanupEffect(_, _, _)
cleanupEffect(st, dirs, subscriberId) ==
  IF dirs = {} THEN st
  ELSE LET d == CHOOSE x \in dirs : TRUE IN
       cleanupEffect(IF subscriberId \in st.subscribers[d]
                     THEN unwatchEffect(st, d, subscriberId) ELSE st,
                     dirs \ {d}, subscriberId)

cleanupWatchers(subscriberId) ==
  /\ LET st == cleanupEffect(WatcherState, NormDirs, subscriberId) IN
     /\ subscribers' = st.subscribers
     /\ watchers' = st.watchers
     /\ openWatchers' = st.openWatchers
  /\ interested' = {x \in interested : x[2] # subscriberId}
  /\ UNCHANGED <<pipelineVars, accepted, store, files, outcome, busVars, shadowVars, recentVars>>

\* watcher.on("add" | "change" | "unlink", ...): the change type passed to
\* sendChangeEvent
changeTypeOf(kind) ==
  CASE kind = "add" -> ADDED
    [] kind = "change" -> UPDATED
    [] kind = "unlink" -> DELETED

OsEventKinds == {"add", "change", "unlink"}

\* sendChangeEvent(dirPath, filePath, changeType): the events on the bus
\* afterwards
sendChangeEvent(b, subs, dirPath, filePath, changeType) ==
  IF subs[dirPath] = {} THEN b
  ELSE Append(b, [type |-> changeType, path |-> filePath])

\* The chokidar watcher of dir raises an event for a file below dir.
OsEvent(dir, p, kind) ==
  /\ Len(osEvents) < MaxOsEvents
  /\ dir \in watchers
  /\ isBelow(p, dir)
  /\ osEvents' = Append(osEvents, [dir |-> dir, path |-> p, kind |-> kind])
  /\ bus' = sendChangeEvent(bus, subscribers, dir, p, changeTypeOf(kind))
  /\ UNCHANGED <<watchers, subscribers, openWatchers, interested, pipelineVars, accepted, store, files, outcome, shadowVars, recentVars>>

NextWatcher ==
  \/ \E d \in RawDirs : \E w \in WindowIds : watchDirectory(d, w)
  \/ \E d \in RawDirs : \E w \in WindowIds : unwatchDirectory(d, w)
  \/ \E w \in WindowIds : cleanupWatchers(w)
  \/ \E dir \in NormDirs : \E p \in EmbedPaths : \E kind \in OsEventKinds : OsEvent(dir, p, kind)

SpecWatcher == Init /\ [][NextWatcher]_vars

\* Every handleFileChange call in flight eventually returns.
NextLive ==
  \/ Arrival(LiveEvents)
  \/ \E x \in timers : TimerFires(x)
  \/ \E c \in inflight : \E fs \in FileViews(c) : \E faults \in PipelineFaults : Complete(c, fs, faults)
  \/ \E s \in ScanSlots : ProjectOpen(s)
  \/ \E s \in ScanSlots : ScanCheck(s)
  \/ \E s \in ScanSlots : ScanStep(s)
  \/ \E m \in 1..MaxMax : setMaxConcurrentEmbeddings(m)

FairSpec ==
  /\ Init /\ [][NextLive]_vars
  /\ \A k \in CallKeys : WF_vars(Returns(k))

\* The behaviours in which no file-system or store call fails.
NextNoFault ==
  \/ Arrival(MaxEvents)
  \/ \E x \in timers : TimerFires(x)
  \/ \E c \in inflight : \E fs \in FileViews(c) : Complete(c, fs, {})
  \/ \E s \in ScanSlots : ProjectOpen(s)
  \/ \E s \in ScanSlots : ScanCheck(s)
  \/ \E s \in ScanSlots : ScanStep(s)
  \/ \E m \in 1..MaxMax : setMaxConcurrentEmbeddings(m)

SpecNoFault == Init /\ [][NextNoFault]_vars

\* ------------------------------------------------ ShadowWorkspaceService
otherVars == <<pipelineVars, accepted, store, files, outcome, watcherVars, busVars>>

Return(op, arg, type, ok, path, fault) ==
  [op |-> op, arg |-> arg, type |-> type, ok |-> ok, path |-> path, fault |-> fault]

\* path.join(shadowBasePath, basename-uniqueId-timestamp): crypto.randomBytes(8)
\* and Date.now() give every call a name of its own, here the number n.
shadowPathOf(projectPath, n) ==
  Append(shadowBasePath, projectPath[Len(projectPath)] \o <<"-", <<"1", "2", "3", "4">>[n]>>)

\* find "${source}" -type d
SubDirs(dk, source) == {q \in DOMAIN dk : dk[q].dir /\ IsAncestorOrSelf(source, q)}

mkdirAll(dk, paths) ==
  [q \in DOMAIN dk \cup UNION {Prefixes(x) : x \in paths} |-> IF q \in DOMAIN dk THEN dk[q] ELSE Dir]

\* On posix: find "${source}" -type d -exec mkdir -p "${destination}/{}" \;
\* where {} is the path find prints, which starts with source; the
\* replace() that follows looks for "${destination}/${source}", which is
\* not in the command. On win32, robocopy /e /xf *; when the command
\* fails, manualDirectoryStructureCopy.
copyDirectoryStructure(dk, pf, source, destination, execOk) ==
  IF execOk /\ pf # "win32"
  THEN mkdirAll(dk, {destination \o q : q \in SubDirs(dk, source)})
  ELSE mkdirAll(dk, {destination \o relative(source, q) : q \in SubDirs(dk, source)})

\* createShadowWorkspace(projectPath): execOk, the system command exits
\* with 0; manualOk, the fallback copy does not throw.
createShadowWorkspace(projectPath, execOk, manualOk) ==
  /\ ~quit
  /\ nextId < MaxShadows
  /\ isDirectory(disk, projectPath)
  /\ LET shadowPath == shadowPathOf(projectPath, nextId + 1)
         made == mkdirSync(disk, shadowPath)
         threw == ~execOk /\ ~manualOk
         workspaceInfo == [originalPath |-> projectPath, shadowPath |-> shadowPath]
     IN
     /\ disk' = IF threw THEN made
                ELSE copyDirectoryStructure(made, platform, projectPath, shadowPath, execOk)
     /\ shadowWorkspaces' = IF threw THEN shadowWorkspaces
                            ELSE shadowMapSet(shadowWorkspaces, workspaceInfo)
     /\ allocated' = IF threw THEN allocated ELSE allocated \cup {shadowPath}
     /\ ret' = Return("create", projectPath, 0, ~threw, IF threw THEN <<>> ELSE shadowPath, ~execOk)
  /\ nextId' = nextId + 1
  /\ UNCHANGED <<otherVars, recentVars, platform, pendingOs, worldChanges, copies, toolCalls, quit>>

\* A cleanup that dropped the entry before it deleted the directory
cleanupWorkspaceEffect_DeleteEntryFirst(st, originalPath, deleteOutcome) ==
  LET workspaceInfo == MapGet(st.ws, originalPath) IN
  IF ~MapHas(st.ws, originalPath) THEN [st EXCEPT !.ok = FALSE]
  ELSE IF deleteOutcome = "ok" \/ ~existsSync(st.disk, workspaceInfo.shadowPath)
  THEN [ws |-> MapDelete(st.ws, originalPath), disk |-> rmSync(st.disk, workspaceInfo.shadowPath), ok |-> TRUE]
  ELSE [ws |-> MapDelete(st.ws, originalPath), disk |-> st.disk, ok |-> FALSE]

\* The effect of cleanupShadowWorkspace(originalPath) on the Map and the
\* disk, and its return value. deleteOutcome: fs.rmSync succeeds ("ok"),
\* throws at once ("fail") or throws after it removed the content
\* ("partial"); deleteDirectory does not call it for a directory that does
\* not exist.
cleanupWorkspaceEffect(st, originalPath, deleteOutcome) ==
  LET workspaceInfo == MapGet(st.ws, originalPath) IN
  IF ~MapHas(st.ws, originalPath) THEN [st EXCEPT !.ok = FALSE]
  ELSE IF deleteOutcome = "ok" \/ ~existsSync(st.disk, workspaceInfo.shadowPath)
  THEN [ws |-> MapDelete(st.ws, originalPath), disk |-> rmSync(st.disk, workspaceInfo.shadowPath), ok |-> TRUE]
  ELSE IF deleteOutcome = "fail"
  THEN [st EXCEPT !.ok = FALSE]
  ELSE [ws |-> st.ws,
        disk |-> Put(rmSync(st.disk, workspaceInfo.shadowPath), workspaceInfo.shadowPath, Dir),
        ok |-> FALSE]

\* A cleanup that deleted the project instead of its shadow directory
cleanupShadowWorkspace_DeleteOriginal(originalPath, deleteOutcome) ==
  /\ ~quit
  /\ LET st == cleanupWorkspaceEffect([ws |-> shadowWorkspaces, disk |-> disk, ok |-> FALSE], originalPath, deleteOutcome) IN
     /\ shadowWorkspaces' = st.ws
     /\ disk' = IF MapHas(shadowWorkspaces, originalPath) THEN rmSync(disk, originalPath) ELSE disk
     /\ ret' = Return("cleanup", originalPath, 0, st.ok, <<>>, deleteOutcome # "ok")
  /\ UNCHANGED <<otherVars, recentVars, platform, nextId, allocated, pendingOs, worldChanges, copies, toolCalls, quit>>

cleanupShadowWorkspace(originalPath, deleteOutcome) ==
  /\ ~quit
  /\ LET st == cleanupWorkspaceEffect([ws |-> shadowWorkspaces, disk |-> disk, ok |-> FALSE], originalPath, deleteOutcome) IN
     /\ shadowWorkspaces' = st.ws
     /\ disk' = st.disk
     /\ ret' = Return("cleanup", originalPath, 0, st.ok, <<>>, deleteOutcome # "ok")
  /\ UNCHANGED <<otherVars, recentVars, platform, nextId, allocated, pendingOs, worldChanges, copies, toolCalls, quit>>

\* cleanupAllShadowWorkspaces: cleanupShadowWorkspace for every key of the
\* Map, in order; `failing` are the keys whose directory cannot be deleted.
RECURSIVE cleanupAllEffect(_, _, _)
cleanupAllEffect(st, keys, failing) ==
  IF keys = <<>> THEN st
  ELSE cleanupAllEffect(cleanupWorkspaceEffect(st, Head(keys), IF Head(keys) \in failing THEN "fail" ELSE "ok"),
                        Tail(keys), failing)

\* app.on("quit")
cleanupAllShadowWorkspaces(failing) ==
  /\ ~quit
  /\ LET keys == [i \in 1..Len(shadowWorkspaces) |-> shadowWorkspaces[i].originalPath]
         st == cleanupAllEffect([ws |-> shadowWorkspaces, disk |-> disk, ok |-> FALSE], keys, failing)
     IN
     /\ shadowWorkspaces' = st.ws
     /\ disk' = st.disk
     /\ ret' = Return("quit", <<>>, 0, failing = {}, <<>>, failing # {})
  /\ quit' = TRUE
  /\ UNCHANGED <<otherVars, recentVars, platform, nextId, allocated, pendingOs, worldChanges, copies, toolCalls>>

\* The effect of copyFileToShadowWorkspace(originalFilePath) on the disk and
\* its return value (path = <<>> for null). copyOk: the file system lets the
\* copy through.
copyFileEffect(ws, dk, originalFilePath, copyOk) ==
  LET dirPath == dirname(originalFilePath)
      workspaceInfo == findWorkspaceForPath(ws, dirPath)
  IN
  IF workspaceInfo = NoWorkspace THEN [disk |-> dk, path |-> <<>>]
  ELSE
    LET relativePath == relative(workspaceInfo.originalPath, originalFilePath)
        shadowFilePath == pathJoin(workspaceInfo.shadowPath, relativePath)
        shadowDir == dirname(shadowFilePath)
    IN
    IF ~existsSync(dk, shadowDir) /\ mkdirFails(dk, shadowDir) THEN [disk |-> dk, path |-> <<>>]
    ELSE
      LET dk1 == IF ~existsSync(dk, shadowDir) THEN mkdirSync(dk, shadowDir) ELSE dk IN
      IF ~copyOk \/ copyFails(dk1, originalFilePath, shadowFilePath)
      THEN [disk |-> dk1, path |-> <<>>]
      ELSE [disk |-> copyFileSync(dk1, originalFilePath, shadowFilePath), path |-> shadowFilePath]

copyFileToShadowWorkspace(originalFilePath, copyOk) ==
  /\ ~quit
  /\ copies < MaxCopies
  /\ copies' = copies + 1
  /\ LET r == copyFileEffect(shadowWorkspaces, disk, originalFilePath, copyOk) IN
     /\ disk' = r.disk
     /\ ret' = Return("copyFile", originalFilePath, 0, r.path # <<>>, r.path, ~copyOk)
  /\ UNCHANGED <<otherVars, recentVars, shadowWorkspaces, platform, nextId, allocated, pendingOs, worldChanges, toolCalls, quit>>

\* ShadowWorkspaceService.handleFileChange(change): the disk afterwards.
\* ioOk: copyFileSync / unlinkSync / rmSync do not fail for a reason of
\* the file system.
shadowHandleFileChange(ws, dk, change, ioOk) ==
  LET originalPath == change.path
      workspaceInfo == findWorkspaceForPath(ws, dirname(originalPath))
  IN
  IF workspaceInfo = NoWorkspace THEN dk
  ELSE
    LET shadowPath == pathJoin(workspaceInfo.shadowPath, relative(workspaceInfo.originalPath, originalPath))
        shadowDir == dirname(shadowPath)
    IN
    IF change.type \in {ADDED, UPDATED}
    THEN IF isDirectory(dk, originalPath)
         THEN IF existsSync(dk, shadowPath) \/ mkdirFails(dk, shadowPath) THEN dk
              ELSE mkdirSync(dk, shadowPath)
         ELSE IF ~existsSync(dk, shadowDir) /\ mkdirFails(dk, shadowDir) THEN dk
         ELSE LET dk1 == IF ~existsSync(dk, shadowDir) THEN mkdirSync(dk, shadowDir) ELSE dk IN
              IF ~ioOk \/ copyFails(dk1, originalPath, shadowPath) THEN dk1
              ELSE copyFileSync(dk1, originalPath, shadowPath)
    ELSE IF change.type = DELETED
    THEN IF ~existsSync(dk, shadowPath) \/ ~ioOk THEN dk
         ELSE IF isDirectory(dk, shadowPath) THEN rmSync(dk, shadowPath)
         ELSE unlinkSync(dk, shadowPath)
    ELSE dk

\* The watcher hands a change it publishes to the "shadow:sync" listeners.
emitShadowSync(kind, filePath) == [type |-> changeTypeOf(kind), path |-> filePath]

\* ---- the real project tree changes; chokidar notices
RECURSIVE SetToSeq(_)
SetToSeq(S) ==
  IF S = {} THEN <<>>
  ELSE LET x == CHOOSE y \in S : TRUE IN <<x>> \o SetToSeq(S \ {x})

RealWrite(f, c) ==
  /\ ~quit
  /\ worldChanges < MaxWorldChanges
  /\ isDirectory(disk, dirname(f))
  /\ ~isDirectory(disk, f)
  /\ IF f \in DOMAIN disk THEN disk[f].content # c ELSE TRUE
  /\ disk' = Put(disk, f, File(c))
  /\ pendingOs' = Append(pendingOs, [kind |-> IF f \in DOMAIN disk THEN "change" ELSE "add", path |-> f])
  /\ worldChanges' = worldChanges + 1
  /\ UNCHANGED <<otherVars, recentVars, shadowWorkspaces, platform, nextId, allocated, copies, toolCalls, quit, ret>>

\* A real file or directory is removed. chokidar raises "unlink" for every
\* file removed and "unlinkDir" for directories, which has no listener.
RealDelete(x) ==
  /\ ~quit
  /\ worldChanges < MaxWorldChanges
  /\ x \in DOMAIN disk
  /\ disk' = rmSync(disk, x)
  /\ LET gone == {q \in DOMAIN disk : IsAncestorOrSelf(x, q) /\ ~disk[q].dir} IN
     pendingOs' = pendingOs \o [i \in 1..Cardinality(gone) |-> [kind |-> "unlink", path |-> SetToSeq(gone)[i]]]
  /\ worldChanges' = worldChanges + 1
  /\ UNCHANGED <<otherVars, recentVars, shadowWorkspaces, platform, nextId, allocated, copies, toolCalls, quit, ret>>

\* chokidar raises the next event; the mirror's listener handles it.
ShadowSync(ioOk) ==
  /\ ~quit
  /\ pendingOs # <<>>
  /\ LET change == emitShadowSync(Head(pendingOs).kind, Head(pendingOs).path) IN
     /\ disk' = shadowHandleFileChange(shadowWorkspaces, disk, change, ioOk)
     /\ ret' = Return("sync", change.path, change.type, ioOk, <<>>, ~ioOk)
  /\ pendingOs' = Tail(pendingOs)
  /\ UNCHANGED <<otherVars, recentVars, shadowWorkspaces, platform, nextId, allocated, worldChanges, copies, toolCalls, quit>>

\* ---- shadowFileTools
\* The enclosing registered roots of a path, and the longest of them
Enclosing(ws, path) == {i \in 1..Len(ws) : IsAncestorOrSelf(ws[i].originalPath, path)}

\* getShadowPath(originalPath): the path translated into the shadow tree of
\* the workspace that encloses it, <<>> for null
getShadowPath(ws, originalPath) ==
  IF Enclosing(ws, originalPath) = {} THEN <<>>
  ELSE LET i == CHOOSE k \in Enclosing(ws, originalPath) :
                  \A j \in Enclosing(ws, originalPath) : Len(ws[j].originalPath) <= Len(ws[k].originalPath)
       IN pathJoin(ws[i].shadowPath, relative(ws[i].originalPath, originalPath))

\* A tool that wrote without looking whether the shadow file exists
writeEffect_NoExistsTest(ws, dk, originalFilePath, content, ioOk) ==
  LET shadowPath == getShadowPath(ws, originalFilePath) IN
  IF shadowPath = <<>> THEN [disk |-> dk, success |-> FALSE, shadowPath |-> <<>>]
  ELSE IF ~ioOk \/ writeFails(dk, shadowPath) THEN [disk |-> dk, success |-> FALSE, shadowPath |-> <<>>]
  ELSE [disk |-> writeFileSync(dk, shadowPath, content), success |-> TRUE, shadowPath |-> shadowPath]

\* writeToShadowFile(originalFilePath, content)
writeEffect(ws, dk, originalFilePath, content, ioOk) ==
  LET shadowPath == getShadowPath(ws, originalFilePath) IN
  IF shadowPath = <<>> THEN [disk |-> dk, success |-> FALSE, shadowPath |-> <<>>]
  ELSE IF ~existsSync(dk, shadowPath) THEN [disk |-> dk, success |-> FALSE, shadowPath |-> shadowPath]
  ELSE IF ~ioOk \/ writeFails(dk, shadowPath) THEN [disk |-> dk, success |-> FALSE, shadowPath |-> <<>>]
  ELSE [disk |-> writeFileSync(dk, shadowPath, content), success |-> TRUE, shadowPath |-> shadowPath]

\* appendToShadowFile(originalFilePath, contentToAppend)
appendEffect(ws, dk, originalFilePath, contentToAppend, ioOk) ==
  LET shadowPath == getShadowPath(ws, originalFilePath) IN
  IF shadowPath = <<>> THEN [disk |-> dk, success |-> FALSE, shadowPath |-> <<>>]
  ELSE IF ~existsSync(dk, shadowPath) THEN [disk |-> dk, success |-> FALSE, shadowPath |-> shadowPath]
  ELSE IF ~ioOk \/ writeFails(dk, shadowPath) THEN [disk |-> dk, success |-> FALSE, shadowPath |-> <<>>]
  ELSE [disk |-> writeFileSync(dk, shadowPath, dk[shadowPath].content \o contentToAppend),
        success |-> TRUE, shadowPath |-> shadowPath]

writeToShadowFile(originalFilePath, content, ioOk) ==
  /\ ~quit
  /\ toolCalls < MaxToolCalls
  /\ LET r == writeEffect(shadowWorkspaces, disk, originalFilePath, content, ioOk) IN
     /\ disk' = r.disk
     /\ ret' = Return("write", originalFilePath, 0, r.success, r.shadowPath, ~ioOk)
  /\ toolCalls' = toolCalls + 1
  /\ UNCHANGED <<otherVars, recentVars, shadowWorkspaces, platform, nextId, allocated, pendingOs, worldChanges, copies, quit>>

appendToShadowFile(originalFilePath, contentToAppend, ioOk) ==
  /\ ~quit
  /\ toolCalls < MaxToolCalls
  /\ LET shadowPath == getShadowPath(shadowWorkspaces, originalFilePath) IN
     IF shadowPath \in DOMAIN disk
     THEN Len(disk[shadowPath].content) + Len(contentToAppend) <= MaxContent
     ELSE TRUE
  /\ LET r == appendEffect(shadowWorkspaces, disk, originalFilePath, contentToAppend, ioOk) IN
     /\ disk' = r.disk
     /\ ret' = Return("append", originalFilePath, 0, r.success, r.shadowPath, ~ioOk)
  /\ toolCalls' = toolCalls + 1
  /\ UNCHANGED <<otherVars, recentVars, shadowWorkspaces, platform, nextId, allocated, pendingOs, worldChanges, copies, quit>>

InitShadow ==
  /\ InitPipeline
  /\ store = {}
  /\ files = [p \in EmbedPaths |-> <<0>>]
  /\ outcome = NoCall
  /\ \E pf \in {"posix", "win32"} : InitShadowService(pf)
  /\ InitRecent(<<>>)

NextShadow ==
  \/ \E r \in Roots : \E execOk, manualOk \in BOOLEAN : createShadowWorkspace(r, execOk, manualOk)
  \/ \E r \in Roots : \E o \in {"ok", "fail", "partial"} : cleanupShadowWorkspace(r, o)
  \/ \E failing \in SUBSET Roots : cleanupAllShadowWorkspaces(failing)
  \/ \E f \in RealFiles : \E c \in Contents : IsAncestorOrSelf(RootP, f) /\ RealWrite(f, c)
  \/ \E x \in RealFiles \cup {RootPS, DirD} : IsAncestorOrSelf(RootP, x) /\ RealDelete(x)
  \/ \E ioOk \in BOOLEAN : ShadowSync(ioOk)

SpecShadow == InitShadow /\ [][NextShadow]_vars

\* The tools of the assistant at work on the shadow trees
NextTools ==
  \/ \E r \in Roots : \E execOk, manualOk \in BOOLEAN : createShadowWorkspace(r, execOk, manualOk)
  \/ \E f \in RealFiles : \E copyOk \in BOOLEAN : copyFileToShadowWorkspace(f, copyOk)
  \/ \E f \in RealFiles : \E c \in Contents : \E ioOk \in BOOLEAN : writeToShadowFile(f, c, ioOk)
  \/ \E f \in RealFiles : \E c \in Contents : \E ioOk \in BOOLEAN : appendToShadowFile(f, c, ioOk)

SpecTools == InitShadow /\ [][NextTools]_vars

\* ---- the list of recent projects in the electron-store
\* The list the store holds when the application starts: what earlier
\* runs have written, the n most recent of /ws/p01 .. /ws/p10.
StoredRecent(n) ==
  [i \in 1..n |->
     LET name == <<"p01", "p02", "p03", "p04", "p05", "p06", "p07", "p08", "p09", "p10">>[i] IN
     [path |-> <<"ws", name>>, name |-> name, lastOpened |-> n - i]]

\* An addToRecentProjects that did not remove the entry of the path
addToRecentProjects_NoFilter(projectPath, elapsed) ==
  /\ Len(recentLog) < MaxRecentCalls
  /\ now' = now + elapsed
  /\ LET projectName == projectPath[Len(projectPath)]
         filteredProjects == recentProjects
         unshifted == <<[path |-> projectPath, name |-> projectName, lastOpened |-> now']>> \o filteredProjects
         limitedProjects == SubSeq(unshifted, 1, Min(Len(unshifted), RecentLimit))
     IN recentProjects' = limitedProjects
  /\ recentLog' = Append(recentLog, projectPath)
  /\ UNCHANGED <<otherVars, shadowVars>>

\* addToRecentProjects(projectPath); elapsed: the time since the last
\* reading of the clock.
addToRecentProjects(projectPath, elapsed) ==
  /\ Len(recentLog) < MaxRecentCalls
  /\ now' = now + elapsed
  /\ LET projectName == projectPath[Len(projectPath)]
         filteredProjects == SelectSeq(recentProjects, LAMBDA p : p.path # projectPath)
         unshifted == <<[path |-> projectPath, name |-> projectName, lastOpened |-> now']>> \o filteredProjects
         limitedProjects == SubSeq(unshifted, 1, Min(Len(unshifted), RecentLimit))
     IN recentProjects' = limitedProjects
  /\ recentLog' = Append(recentLog, projectPath)
  /\ UNCHANGED <<otherVars, shadowVars>>

InitRecentStore ==
  /\ InitPipeline
  /\ InitShadowService("posix")
  /\ store = {}
  /\ files = [p \in EmbedPaths |-> <<0>>]
  /\ outcome = NoCall
  /\ \E n \in 0..RecentLimit : InitRecent(StoredRecent(n))

NextRecent == \E projectPath \in RecentPaths : \E elapsed \in {0, 1} : addToRecentProjects(projectPath, elapsed)

SpecRecent == InitRecentStore /\ [][NextRecent]_vars

\* The mirror with every operation that writes to the disk: the workspace
\* calls, the changes it is told of and the copies asked for over IPC
NextMirror ==
  \/ \E r \in Roots : \E execOk, manualOk \in BOOLEAN : createShadowWorkspace(r, execOk, manualOk)
  \/ \E r \in Roots : cleanupShadowWorkspace(r, "ok")
  \/ \E f \in RealFiles : \E copyOk \in BOOLEAN : copyFileToShadowWorkspace(f, copyOk)
  \/ \E f \in RealFiles : \E c \in Contents : IsAncestorOrSelf(RootP, f) /\ RealWrite(f, c)
  \/ \E x \in RealFiles \cup {RootPS, DirD} : IsAncestorOrSelf(RootP, x) /\ RealDelete(x)
  \/ \E ioOk \in BOOLEAN : ShadowSync(ioOk)

SpecMirror == InitShadow /\ [][NextMirror]_vars

\* ------------------------------------------------------------------ claims
NumArrived == Len(arrivals)
Scheduled(i) == \E x \in timers : x.id = i
PendingId(i) == \E k \in 1..Len(pendingChanges) : pendingChanges[k].id = i
PassesFilter(i) == ~shouldIgnorePath(arrivals[i].path) /\ arrivals[i].watched

\* Event j is the last of a maximal run of events on one path, each arriving
\* before the debounce of the previous one has fired.
BurstEnd(j) ==
  \/ j = NumArrived
  \/ arrivals[j + 1].path # arrivals[j].path
  \/ ~arrivals[j + 1].rapid

\* A later event for the same path has replaced event i in the pending map.
Superseded(i) ==
  \E k \in accepted : k > i /\ arrivals[k].path = arrivals[i].path

\* C1: the number of files whose processFileChange is in flight never
\* exceeds the configured maxConcurrentEmbeddings.
C1_ConcurrencyBound == activeEmbeddings <= maxConcurrentEmbeddings

\* A newer event for the same path has arrived and takes over from event j.
NewerEvent(j) == \E k \in (j + 1)..NumArrived : arrivals[k].path = arrivals[j].path

\* C2: of every run of rapid events on one path that pass the filter, the
\* last event is processed exactly once - it is waiting for its debounce,
\* waiting in the pending map, or has been handed to handleFileChange
\* once, unless a newer event for the path has arrived since - and no
\* earlier event of the run is processed.
C2_DebounceCollapsing ==
  \A j \in 1..NumArrived :
    /\ (PassesFilter(j) /\ BurstEnd(j)) =>
         /\ started[j] <= 1
         /\ Scheduled(j) \/ PendingId(j) \/ started[j] = 1 \/ NewerEvent(j)
    /\ (PassesFilter(j) /\ ~BurstEnd(j)) => started[j] = 0

\* C3: debouncing is per path - a scheduled event for a watched path P that
\* passes the filter leaves the debounce only by being delivered or by
\* being replaced by a newer event for the same path P, never because of
\* an event for another path.
C3_PerPathDebounce ==
  [][\A x \in timers :
       (x \notin timers' /\ Accepts(x)) =>
         \/ x.id \in delivered'
         \/ arrivals'[Len(arrivals')].path = x.path]_vars

\* C4: the arrival of an event for an ignored path (untracked extension or
\* ignored directory) changes neither the pending map, nor the active
\* count, nor any debounce timer already scheduled for an event that
\* passes the filter.
C4_IgnoredEventNoEffect ==
  [][(Len(arrivals') > Len(arrivals) /\ shouldIgnorePath(arrivals'[Len(arrivals')].path)) =>
       /\ pendingChanges' = pendingChanges
       /\ activeEmbeddings' = activeEmbeddings
       /\ {x \in timers : Accepts(x)} \subseteq timers']_vars

\* C5: when processing of a file ends, the slot is released exactly once
\* and, if the pending map is not empty, a pending path is promoted in the
\* same step.
C5_ReleaseAndPromote ==
  [][(inflight \ inflight' # {}) =>
       /\ activeEmbeddings' = activeEmbeddings - 1 + Cardinality(inflight' \ inflight)
       /\ pendingChanges # <<>> => Cardinality(inflight' \ inflight) >= 1]_vars

\* C6: a path in the pending map is never stranded - while an entry is
\* pending some call is in flight whose completion looks at the map again -
\* an entry leaves the map only by being handed to processFileChange or by
\* being replaced by a newer event for its path, and every pending event is
\* eventually handed to processFileChange unless it is so replaced.
C6_PendingEventuallyDispatched ==
  /\ [](pendingChanges # <<>> => inflight # {})
  /\ [][\A i \in EventIds : (PendingId(i) /\ ~PendingId(i)') => (started'[i] = 1 \/ Superseded(i)')]_vars
  /\ \A i \in EventIds : PendingId(i) ~> (started[i] = 1 \/ Superseded(i))

C6_Witness ==
  /\ pendingChanges # <<>>
  /\ activeEmbeddings >= maxConcurrentEmbeddings
  /\ inflight # {}

CleanUpdate == outcome.type = UPDATED /\ outcome.tag # "none" /\ outcome.faults = {}
NewChunks == files[outcome.path]
NewCount == Len(NewChunks)
OldCount == Cardinality(outcome.prev)
IdsAt(idxs) == {ChunkId(outcome.path, i - 1) : i \in idxs}
PrevIds == {r.id : r \in outcome.prev}
\* positions whose stored text differs from the re-split text (equal counts)
ChangedPositions ==
  {i \in 1..NewCount : \E r \in outcome.prev : r.id = ChunkId(outcome.path, i - 1) /\ r.doc # NewChunks[i]}
StoreOf(p) == Matching(store, p)

\* C8: equal chunk counts n and k changed positions, 0 < k <= n/2: the
\* store receives exactly one delete and one add, both for exactly the ids
\* of the changed positions, and the chunks at the unchanged positions stay
\* as they were.
C8_SmartUpdate ==
  (CleanUpdate /\ OldCount = NewCount /\ ChangedPositions # {} /\ 2 * Cardinality(ChangedPositions) <= NewCount) =>
    /\ outcome.ops = <<[op |-> "delete", ids |-> IdsAt(ChangedPositions)], [op |-> "add", ids |-> IdsAt(ChangedPositions)]>>
    /\ \A r \in outcome.prev : r.id \notin IdsAt(ChangedPositions) => r \in store

\* C9: when the new chunk count differs from the stored chunk count, all
\* stored chunks of the file are deleted, then all new chunks are added,
\* and the store then holds exactly the new chunks of the file.
C9_StructuralFallback ==
  (CleanUpdate /\ OldCount # NewCount) =>
    /\ outcome.ops = (IF OldCount = 0 THEN <<>> ELSE <<[op |-> "delete", ids |-> PrevIds]>>)
                       \o <<[op |-> "add", ids |-> IdsAt(1..NewCount)]>>
    /\ StoreOf(outcome.path) = ChunkRecs(outcome.path, NewChunks, 1..NewCount)

\* C10: with equal chunk counts n and k changed positions the full
\* delete-all-then-re-embed path is taken if and only if k > n/2.
C10_HalfThreshold ==
  (CleanUpdate /\ OldCount = NewCount) =>
    IF 2 * Cardinality(ChangedPositions) > NewCount
    THEN outcome.tag = "embed"
    ELSE outcome.tag \in {"update", "nochange"}

\* The chunk set a complete embedding of the file's current content gives.
NewChunkSet == ChunkRecs(outcome.path, NewChunks, 1..NewCount)

\* C11: an Updated file whose chunks are position by position identical to
\* the stored chunks causes no add and no delete, the call returns success
\* with a changed count of 0, and the store is unchanged.
C11_NoChangeNoMutation ==
  (CleanUpdate /\ OldCount = NewCount /\ ChangedPositions = {}) =>
    /\ outcome.ops = <<>>
    /\ outcome.success
    /\ outcome.count = 0
    /\ StoreOf(outcome.path) = outcome.prev

\* C12: whatever step of a smart update throws, when handleFileChange has
\* returned the store does not hold a partially updated chunk set of the
\* file: it holds the complete new chunk set, or the chunk set it held
\* before the call, or no chunk of the file.
C12_NoPartialUpdate ==
  (outcome.type = UPDATED /\ outcome.tag # "none" /\ outcome.faults # {}) =>
    \/ StoreOf(outcome.path) = NewChunkSet
    \/ StoreOf(outcome.path) = outcome.prev
    \/ StoreOf(outcome.path) = {}

\* C13: after a Deleted change has been processed with success the store
\* holds no chunk of the file, however many chunks it held before.
C13_DeleteRemovesAll ==
  (outcome.type = DELETED /\ outcome.tag # "none" /\ outcome.success) =>
    StoreOf(outcome.path) = {}

\* C17: handleFileChange never throws - for every change type, an unknown
\* one included, and every failure of the file system or the store it
\* returns a result; an unknown type, an Added change one of whose calls
\* threw, a Deleted change whose query threw, and any change during which
\* every call throws (the fallback fails too) return success = FALSE.
C17_NeverThrows ==
  outcome.tag # "none" =>
    /\ outcome.tag # "throw"
    /\ outcome.success \in BOOLEAN
    /\ outcome.type \notin FileChangeType => (~outcome.success /\ outcome.tag = "unknown")
    /\ outcome.type = ADDED => (outcome.success <=> outcome.faults \cap {1, 2} = {})
    /\ (outcome.type = DELETED /\ 1 \in outcome.faults) => ~outcome.success
    /\ outcome.faults = 1..MaxExternalCalls => ~outcome.success

\* the smart update threw and the fallback failed as well
C17_Witness ==
  /\ outcome.type = UPDATED
  /\ outcome.tag = "embed"
  /\ outcome.faults = 1..MaxExternalCalls
  /\ ~outcome.success

\* ---- FileWatcherService
InterestedIn(d) == {w \in WindowIds : <<d, w>> \in interested}

\* C18: a normalized directory path never has more than one open OS
\* watcher, whatever watch calls from whatever subscribers have been made.
C18_OneWatcherPerDir ==
  \A d \in NormDirs : openWatchers[d] <= 1 /\ (d \in watchers <=> openWatchers[d] = 1)

\* two subscribers have asked to watch one directory
C18_Witness ==
  \E d \in NormDirs : Cardinality(InterestedIn(d)) >= 2 /\ openWatchers[d] = 1

\* C19: a directory has an open OS watcher exactly when its subscriber set
\* is not empty, and the subscriber set of a directory holds every
\* subscriber that asked to watch it and has not unwatched it since.
C19_RefCounting ==
  \A d \in NormDirs :
    /\ openWatchers[d] > 0 <=> subscribers[d] # {}
    /\ InterestedIn(d) \subseteq subscribers[d]

\* C20: a cleanup for a subscriber leaves the subscriber in no subscriber
\* set, releases the watcher of every directory that had no other
\* subscriber, and leaves the watchers of the directories that have other
\* subscribers as they were.
C20_Cleanup ==
  [][\A w \in WindowIds :
       ((\E d \in NormDirs : <<d, w>> \in interested) /\ interested' = {x \in interested : x[2] # w}) =>
         \A d \in NormDirs :
           /\ w \notin subscribers'[d]
           /\ InterestedIn(d) = {w} => openWatchers'[d] = 0
           /\ InterestedIn(d) \ {w} # {} => openWatchers'[d] = openWatchers[d]]_vars

\* ---- the pipeline at rest
Quiescent ==
  /\ timers = {}
  /\ pendingChanges = <<>>
  /\ inflight = {}
  /\ \A s \in ScanSlots : ~scans[s].on

\* C14: when a Deleted event for P was entered in the pending map while an
\* Added / Updated call for P was in flight and no newer event for P has
\* arrived, then once the pipeline is at rest the store holds no chunk
\* whose source is P.
C14_DeleteDuringEmbedding ==
  Quiescent =>
    \A i \in raced : ~NewerEvent(i) => Matching(store, arrivals[i].path) = {}

\* ---- the files a scan of the project has to process
Trackable(p) ==
  /\ toLowerCase(p.ext) \in EMBEDDABLE_FILE_EXTENSIONS
  /\ \A i \in (Len(ProjectRoot) + 1)..Len(p.dirs) : p.dirs[i] \notin IGNORED_DIRECTORIES

LogPaths(s) == {scans[s].log[i].path : i \in 1..Len(scans[s].log)}

IndexCallsOf(p) == {k \in IndexCallIds : indexCalls[k].pc # "idle" /\ indexCalls[k].path = p}

Adding(p) == {k \in IndexCallsOf(p) : indexCalls[k].ops # <<>>}

\* C15: when no call of the invocations for a file has failed, at most one
\* of them has added chunks; once one of them has returned, exactly one has
\* and the store holds the chunks of the file; an invocation whose check
\* found chunks has returned success with "File already indexed" and has
\* made no add or delete.
C15_IndexFileIdempotent ==
  \A p \in IndexPaths :
    (\A k \in IndexCallsOf(p) : ~indexCalls[k].faulty) =>
      /\ Cardinality(Adding(p)) <= 1
      /\ (\E k \in IndexCallsOf(p) : indexCalls[k].pc = "done") =>
           /\ Cardinality(Adding(p)) = 1
           /\ Matching(store, p) = ChunkRecs(p, files[p], 1..Len(files[p]))
      /\ \A k \in IndexCallsOf(p) : indexCalls[k].exists =>
           /\ indexCalls[k].pc = "done"
           /\ indexCalls[k].success
           /\ indexCalls[k].message = "File already indexed"
           /\ indexCalls[k].ops = <<>>

\* C21: every add / change / unlink event raised by an open watcher is on
\* the bus as an Added / Updated / Deleted file-change event for its path,
\* in the order raised, whatever the subscribers of the directory are.
C21_AllEventsPublished ==
  bus = [i \in 1..Len(osEvents) |-> [type |-> changeTypeOf(osEvents[i].kind), path |-> osEvents[i].path]]

\* ---- the mirror of the project trees
\* The registered workspace that owns a path: the one with the longest
\* root that encloses it
Owner(ws, path) ==
  IF Enclosing(ws, path) = {} THEN NoWorkspace
  ELSE ws[CHOOSE k \in Enclosing(ws, path) :
            \A j \in Enclosing(ws, path) : Len(ws[j].originalPath) <= Len(ws[k].originalPath)]

Translated(w, path) == pathJoin(w.shadowPath, relative(w.originalPath, path))

\* The step handles one change raised by chokidar
SyncStep == Len(pendingOs') < Len(pendingOs)

\* C22: when the mirror handles an Added or Updated change for a real file
\* F inside a registered root, and the file system lets the copy through,
\* the shadow tree of the workspace that owns F holds afterwards, at
\* shadowPath/relative(root, F), a file with the content of F.
C22_ShadowSyncRoundTrip ==
  [][(/\ SyncStep
      /\ ret'.type \in {ADDED, UPDATED}
      /\ ~ret'.fault
      /\ existsSync(disk, ret'.arg)
      /\ ~isDirectory(disk, ret'.arg)
      /\ Owner(shadowWorkspaces, ret'.arg) # NoWorkspace) =>
       LET target == Translated(Owner(shadowWorkspaces, ret'.arg), ret'.arg) IN
       /\ existsSync(disk', target)
       /\ disk'[target] = disk[ret'.arg]]_vars

\* The real directories that have been deleted
DeletedDirs == {d \in RealDirs : d \notin DOMAIN disk}

\* C23: when the mirror handles a Deleted change for a path inside a
\* registered root and the file system lets the removal through, the shadow
\* tree of the owning workspace holds nothing at the translated path
\* afterwards; and once every change raised for the deletion of a real
\* subdirectory has been handled, the shadow tree of the workspace that
\* owns the subdirectory holds nothing at the translated path.
C23_DeletionPropagation ==
  /\ [][(/\ SyncStep
         /\ ret'.type = DELETED
         /\ ~ret'.fault
         /\ Owner(shadowWorkspaces, ret'.arg) # NoWorkspace) =>
          ~existsSync(disk', Translated(Owner(shadowWorkspaces, ret'.arg), ret'.arg))]_vars
  /\ [](\A d \in DeletedDirs :
          (/\ pendingOs = <<>>
           /\ ret.op = "sync" => ~ret.fault
           /\ Owner(shadowWorkspaces, d) # NoWorkspace
           /\ Owner(shadowWorkspaces, d).originalPath # d) =>
            ~existsSync(disk, Translated(Owner(shadowWorkspaces, d), d)))

\* The paths looked up
QueryPaths == RealFiles \cup RealDirs

\* C24: a path enclosed by registered roots resolves to the workspace with
\* the longest of them, whatever the order of registration.
C24_LongestPrefixLookup ==
  \A q \in QueryPaths :
    Enclosing(shadowWorkspaces, q) # {} =>
      findWorkspaceForPath(shadowWorkspaces, q) = Owner(shadowWorkspaces, q)

\* C25: a path resolves to a workspace only if it is the root of the
\* workspace or lies inside it; a path inside no registered root resolves
\* to null.
C25_LookupOnlyInsideRoot ==
  \A q \in QueryPaths :
    LET workspaceInfo == findWorkspaceForPath(shadowWorkspaces, q) IN
    /\ workspaceInfo # NoWorkspace => IsAncestorOrSelf(workspaceInfo.originalPath, q)
    /\ Enclosing(shadowWorkspaces, q) = {} => workspaceInfo = NoWorkspace

\* The step is a cleanupShadowWorkspace(ret'.arg) call
CleanupStep == ret'.op = "cleanup" /\ worldChanges' = worldChanges

\* C26: cleanupShadowWorkspace(p) returns false and changes neither the
\* registry nor the disk when p has no entry; with an entry and a deletion
\* that succeeds it returns true, the shadow directory is gone and the
\* registry has lost the entry of p and no other; when the deletion fails
\* it returns false and the entry of p is kept.
C26_CleanupShadowWorkspace ==
  [][CleanupStep =>
       LET p == ret'.arg
           workspaceInfo == MapGet(shadowWorkspaces, p)
       IN
       IF ~MapHas(shadowWorkspaces, p)
       THEN ~ret'.ok /\ shadowWorkspaces' = shadowWorkspaces /\ disk' = disk
       ELSE IF ~ret'.fault
       THEN /\ ret'.ok
            /\ ~existsSync(disk', workspaceInfo.shadowPath)
            /\ shadowWorkspaces' = MapDelete(shadowWorkspaces, p)
            /\ ~MapHas(shadowWorkspaces', p)
       ELSE /\ ~ret'.ok
            /\ shadowWorkspaces' = shadowWorkspaces]_vars

C26_Witness ==
  /\ ret.op = "cleanup"
  /\ ret.ok
  /\ ~MapHas(shadowWorkspaces, ret.arg)
  /\ \E n \in 1..nextId : shadowPathOf(ret.arg, n) \in allocated /\ ~existsSync(disk, shadowPathOf(ret.arg, n))

\* The step is a createShadowWorkspace(ret'.arg) call
CreateStep == nextId' = nextId + 1

\* C27: the registry never holds two entries for one original path; a
\* createShadowWorkspace that succeeds for a root leaves the registry with
\* the newly allocated shadow path for that root, a path that was not
\* allocated before, and no lookup answers the shadow path the root had
\* before; the entries of the other roots are as they were.
C27_OneEntryPerRoot ==
  /\ [](\A i, j \in 1..Len(shadowWorkspaces) :
          shadowWorkspaces[i].originalPath = shadowWorkspaces[j].originalPath => i = j)
  /\ [][(CreateStep /\ ret'.ok) =>
          LET p == ret'.arg
              previous == MapGet(shadowWorkspaces, p).shadowPath
          IN
          /\ ret'.path \notin allocated
          /\ getShadowWorkspace(shadowWorkspaces', p) = [originalPath |-> p, shadowPath |-> ret'.path]
          /\ MapHas(shadowWorkspaces, p) =>
               /\ ret'.path # previous
               /\ Len(shadowWorkspaces') = Len(shadowWorkspaces)
               /\ \A q \in QueryPaths :
                    /\ findWorkspaceForPath(shadowWorkspaces', q).shadowPath # previous
                    /\ getShadowWorkspace(shadowWorkspaces', q).shadowPath # previous
          /\ \A r \in Roots \ {p} :
               getShadowWorkspace(shadowWorkspaces', r) = getShadowWorkspace(shadowWorkspaces, r)]_vars

\* A root registered again while its first shadow tree was registered
C27_Witness ==
  /\ ret.op = "create"
  /\ ret.ok
  /\ getShadowWorkspace(shadowWorkspaces, ret.arg).shadowPath = shadowPathOf(ret.arg, nextId)
  /\ \E n \in 1..(nextId - 1) :
       \E q \in DOMAIN disk :
         q # shadowPathOf(ret.arg, n) /\ IsAncestorOrSelf(shadowPathOf(ret.arg, n), q)

\* C28: every shadow directory that createShadowWorkspace has handed out
\* and that is still on disk is the one the registry records for its root,
\* and after a cleanupAll in which no deletion failed none of them is on
\* disk.
C28_OneShadowDirectoryPerRoot ==
  /\ \A a \in allocated :
       existsSync(disk, a) => \E i \in 1..Len(shadowWorkspaces) : shadowWorkspaces[i].shadowPath = a
  /\ (quit /\ ~ret.fault) => \A a \in allocated : ~existsSync(disk, a)

\* The step is a copyFileToShadowWorkspace(ret'.arg) call
CopyStep == copies' = copies + 1

\* C29: copyFileToShadowWorkspace(F) returns null and leaves the disk as
\* it was when no registered root encloses F; when a workspace owns F and
\* the copy goes through it returns shadowPath/relative(originalPath, F),
\* where the disk then holds the content of F; a copy that fails returns
\* null.
C29_CopyFileToShadowWorkspace ==
  [][CopyStep =>
       LET F == ret'.arg
           workspaceInfo == Owner(shadowWorkspaces, F)
       IN
       /\ workspaceInfo = NoWorkspace => (ret'.path = <<>> /\ disk' = disk)
       /\ (workspaceInfo # NoWorkspace /\ ret'.path # <<>>) =>
            /\ ret'.path = Translated(workspaceInfo, F)
            /\ existsSync(disk', ret'.path)
            /\ disk'[ret'.path] = disk[F]
       /\ (workspaceInfo # NoWorkspace /\ ~ret'.fault /\ existsSync(disk, F) /\ ~isDirectory(disk, F)) =>
            ret'.path # <<>>
       /\ (ret'.fault \/ ~existsSync(disk, F)) => ret'.path = <<>>]_vars

\* The step is a writeToShadowFile or appendToShadowFile call for ret'.arg
ToolStep == toolCalls' = toolCalls + 1

FilesOn(dk) == {q \in DOMAIN dk : ~dk[q].dir}

\* C30: a writeToShadowFile or appendToShadowFile call creates no file and
\* no directory: the files and the directories on disk are the same before
\* and after it; when no workspace owns the path, or the shadow file does
\* not exist, it returns success false and the disk is as it was.
C30_ToolsNeverCreate ==
  [][ToolStep =>
       LET F == ret'.arg
           workspaceInfo == Owner(shadowWorkspaces, F)
       IN
       /\ FilesOn(disk') = FilesOn(disk)
       /\ DOMAIN disk' = DOMAIN disk
       /\ workspaceInfo = NoWorkspace => (~ret'.ok /\ ret'.path = <<>> /\ disk' = disk)
       /\ (workspaceInfo # NoWorkspace /\ ~existsSync(disk, Translated(workspaceInfo, F))) =>
            (~ret'.ok /\ disk' = disk)
       /\ ret'.ok => disk'[Translated(workspaceInfo, F)].content # <<>>]_vars

\* A tool call for a file of a registered project that has no shadow file
C30_Witness ==
  /\ ret.op \in {"write", "append"}
  /\ ~ret.ok
  /\ ~ret.fault
  /\ ret.path # <<>>
  /\ ~existsSync(disk, ret.path)
  /\ toolCalls = MaxToolCalls

\* The disk outside the cache directory of the shadow workspaces
OutsideShadowBase(dk) ==
  [q \in {x \in DOMAIN dk : ~IsAncestorOrSelf(shadowBasePath, x)} |-> dk[q]]

\* C31: a step of the mirror (workspace creation, sync-on-change,
\* copyFileToShadowWorkspace, cleanup) leaves every file and directory
\* outside the cache directory, so every original project tree, as it was;
\* only the changes the user makes alter a project tree.
C31_OriginalTreeNeverWritten ==
  [][(worldChanges' = worldChanges) => OutsideShadowBase(disk') = OutsideShadowBase(disk)]_vars

\* The mirror has copied a file and cleaned up a workspace
C31_Witness ==
  /\ ret.op = "cleanup"
  /\ ret.ok
  /\ copies > 0
  /\ \E q \in DOMAIN disk : ~disk[q].dir /\ IsAncestorOrSelf(shadowBasePath, q)

\* The shadow tree below a shadow directory
TreeBelow(dk, shadowPath) == {q \in DOMAIN dk : IsAncestorOrSelf(shadowPath, q)}

\* C32: a structure-only createShadowWorkspace that succeeds, by the
\* system command or by the manual fallback, leaves below the new shadow
\* directory exactly the directories of the project at the same relative
\* paths, and no file.
C32_CloneSameTree ==
  [][(CreateStep /\ ret'.ok) =>
       /\ TreeBelow(disk', ret'.path) =
            {ret'.path \o relative(ret'.arg, q) : q \in SubDirs(disk, ret'.arg)}
       /\ \A q \in TreeBelow(disk', ret'.path) : disk'[q].dir]_vars

\* The step is an addToRecentProjects call
RecentStep == Len(recentLog') > Len(recentLog)

\* C33: the recent-projects list never has more than 10 entries nor two
\* entries with the same path, is ordered most recent first, and after a
\* call holds the path of the latest call at index 0 with its basename as
\* name; a call leaves the other entries in their relative order, dropping
\* only entries from the end.
C33_RecentProjects ==
  /\ [](/\ Len(recentProjects) <= 10
        /\ \A i, j \in 1..Len(recentProjects) :
             /\ recentProjects[i].path = recentProjects[j].path => i = j
             /\ i < j => recentProjects[i].lastOpened >= recentProjects[j].lastOpened
        /\ recentLog # <<>> =>
             /\ recentProjects[1].path = recentLog[Len(recentLog)]
             /\ recentProjects[1].name = recentLog[Len(recentLog)][2])
  /\ [][RecentStep =>
          LET others(list) == SelectSeq(list, LAMBDA p : p.path # recentLog'[Len(recentLog')])
              kept == Len(recentProjects') - 1
          IN
          /\ kept = Min(Len(others(recentProjects)), 9)
          /\ others(recentProjects') = SubSeq(others(recentProjects), 1, kept)]_vars

\* A full list to which a project not in it has been added, and then one
\* that was in it
C33_Witness ==
  /\ Len(recentProjects) = 10
  /\ Len(recentLog) = 2
  /\ recentLog[1] = <<"ws", "p11">>
  /\ recentLog[2] = <<"ws", "p05">>
  /\ recentProjects[2].path = <<"ws", "p11">>
  /\ \A i \in 1..10 : recentProjects[i].path # <<"ws", "p10">>

\* C34: no two processFileChange calls for the same path are in flight at
\* the same time.
C34_OneOperationPerPath ==
  \A c1, c2 \in inflight : c1.path = c2.path => c1 = c2

\* The step is a direct handleFileChange call
DirectStep == outcome.tag = "none" /\ outcome'.tag # "none"

\* C35: a handleFileChange call for file P leaves the stored chunks whose
\* source is another file as they are, and no collection.add it makes
\* carries an id that a chunk of another file already has in the store.
C35_ChunkIsolation ==
  [][DirectStep =>
       LET P == outcome'.path IN
       /\ \A Q \in DOMAIN files \ {P} : Matching(store', Q) = Matching(store, Q)
       /\ \A i \in 1..Len(outcome'.ops) :
            outcome'.ops[i].op = "add" =>
              \A r \in store : r.source # P => r.id \notin outcome'.ops[i].ids]_vars

\* C36: whenever an Added or Updated change for a path has been processed
\* with success, the stored chunks of that path are exactly the chunks of
\* the file as it is now, one per position, none stale, missing or doubled
\* - whatever call failed on the way.
C36_StoreIsCurrentSplit ==
  (outcome.tag # "none" /\ outcome.type \in {ADDED, UPDATED} /\ outcome.success) =>
    /\ StoreOf(outcome.path) = NewChunkSet
    /\ \A r1, r2 \in StoreOf(outcome.path) : r1.id = r2.id => r1 = r2

\* The paths a step creates, overwrites or deletes
Touched(dk, dk2) ==
  {q \in DOMAIN dk \cup DOMAIN dk2 :
     IF q \in DOMAIN dk /\ q \in DOMAIN dk2 THEN dk[q] # dk2[q] ELSE TRUE}

\* C37: every path that a shadow:sync of a change or a
\* copyFileToShadowWorkspace call creates, overwrites or deletes lies in
\* the shadow directory of the workspace found for the path of that call.
C37_MirrorWritesContained ==
  [][(SyncStep \/ CopyStep) =>
       LET workspaceInfo == findWorkspaceForPath(shadowWorkspaces, dirname(ret'.arg)) IN
       \A q \in Touched(disk, disk') :
         /\ workspaceInfo # NoWorkspace
         /\ IsAncestorOrSelf(workspaceInfo.shadowPath, q)]_vars

\* C38: activeEmbeddings is the number of processFileChange calls that
\* have started and not completed, whether the pipeline or the bulk scan
\* started them; it is never negative and is 0 when no call is in flight.
C38_CounterAccuracy ==
  /\ activeEmbeddings = Cardinality(inflight)
  /\ activeEmbeddings >= 0
  /\ inflight = {} => activeEmbeddings = 0

\* A call has completed while another one is in flight
C38_Witness ==
  /\ activeEmbeddings >= 1
  /\ \E i \in EventIds : started[i] > 0 /\ \A c \in inflight : c.id # i

\* C39: an event enters the pending map only if, when its debounce fires,
\* its file is in the tree of a directory of the watched-path set - a
\* file of a sibling directory whose name begins with a watched path is
\* not - and processFileChange starts for a pending event only while its
\* file is in the tree of a watched directory, so that nothing is
\* enqueued or processed for a directory after it has been unwatched.
C39_WatchedPathFilter ==
  [][/\ \A i \in accepted' \ accepted : \E w \in watchedPaths : isBelow(arrivals[i].path, w)
     /\ \A c \in inflight' \ inflight : c.scan = 0 => \E w \in watchedPaths : isBelow(c.path, w)]_vars

\* C40: setDebounceTimeout keeps the debounce of one path as it was: the
\* call leaves an event that waits for its timer scheduled, and of a run
\* of events on the path, each arriving before the timer of the previous
\* one has fired, only the last ever enters the pending map, whether or
\* not the interval was changed in between - so no older event is
\* processed after a newer one.
C40_ReconfiguredDebounce ==
  /\ [](\A j \in 1..NumArrived : ~BurstEnd(j) => j \notin accepted)
  /\ [][debounceTimeout' # debounceTimeout => timers' = timers]_vars

====
